---------------------------- MODULE Spec2Model ----------------------------
(***************************************************************************)
(* A model of the epubToAudioBook conversion pipeline:                     *)
(*   - the chapter orchestrator (AudiobookGenerator.run, the worker pool   *)
(*     and the manifest writer) as a state machine: specification Spec;    *)
(*   - the alignment engine (_map_words_to_tokens, _assign_span) as pure   *)
(*     operators applied to bounded inputs: specification SpecAlign;       *)
(*   - the chapter timing builder (text_to_speech, the heuristic timer and *)
(*     _build_precise_timings): specification SpecTimings.                 *)
(*                                                                         *)
(* Python floats are modelled as exact rationals [n, d] in lowest terms    *)
(* (seconds); texts are sequences of one-character strings.                *)
(***************************************************************************)
EXTENDS Integers, Sequences, FiniteSets, TLC

VARIABLES
    \* ---- orchestrator (AudiobookGenerator.run) ----
    pc,             \* position of run()
    chapters,       \* book_parser.get_chapters(): one text class per chapter
    chapter_start,  \* config.chapter_start
    chapter_end,    \* config.chapter_end
    worker_count,   \* config.worker_count
    kokoro_devices, \* config.kokoro_devices: the device pool (empty: none)
    found,          \* manifest.json as the run found it in the output folder
    prompt,         \* "skip" (no_prompt / preview), "yes" or "no" (the user's answer)
    taskq,          \* chapter indices submitted to the pool, not yet taken
    workers,        \* pool slot -> [st, job]
    results,        \* the list run() appends to, in completion order
    raised,         \* chapter indices whose process_chapter body raised
    manifest,       \* manifest.json in the output folder
    outcome,        \* how run() ended
    \* ---- alignment engine / timing builder ----
    tpc,            \* position of text_to_speech / of the alignment call
    chunks,         \* text_chunks of the chapter
    chunk_records,  \* chunk_records
    all_tokens,     \* all_tokens
    words,          \* recognized words handed to _map_words_to_tokens
    assigned,       \* the assignments dict of _map_words_to_tokens, before its post-pass
    alignment,      \* result of align_tokens_with_audio / _map_words_to_tokens
    estimate,       \* timings as returned by _build_word_timings_estimate
    timings,        \* timings returned by _build_precise_timings
    \* ---- align_tokens_with_audio and its backends ----
    backend,        \* the backend argument of align_tokens_with_audio
    backend_queue,  \* backend_queue
    invoked,        \* the backend functions called so far, with what each returned
    chapter_result, \* what process_chapter returned for the chapter ("none": not yet)
    \* ---- backend server (app/backend/main.py) ----
    tasks_status,   \* tasks_status: job_id -> [status, book_id]
    jobs,           \* the accepted create_audiobook requests; job_id is the index
    output_dir,     \* the folders of OUTPUT_DIR, by book_id
    books_dir,      \* the .epub files of BOOKS_DIR, by book_id
    deleted         \* the jobs whose book a returned delete_book has deleted

vars == <<pc, chapters, chapter_start, chapter_end, worker_count, kokoro_devices, found, prompt, taskq,
          workers, results, raised, manifest, outcome,
          tpc, chunks, chunk_records, all_tokens, words, assigned, alignment,
          estimate, timings,
          backend, backend_queue, invoked, chapter_result,
          tasks_status, jobs, output_dir, books_dir, deleted>>

runVars == <<pc, chapters, chapter_start, chapter_end, worker_count, kokoro_devices, found, prompt, taskq,
             workers, results, raised, manifest, outcome>>

timingVars == <<tpc, chunks, chunk_records, all_tokens, words, assigned, alignment,
               estimate, timings>>

backendVars == <<backend, backend_queue, invoked, chapter_result>>

serverVars == <<tasks_status, jobs, output_dir, books_dir, deleted>>

\* Python's None where a dict could stand.
None == [none |-> TRUE]

Max(a, b) == IF a >= b THEN a ELSE b

Min(a, b) == IF a <= b THEN a ELSE b

RECURSIVE SeqSum(_)
SeqSum(s) == IF s = <<>> THEN 0 ELSE Head(s) + SeqSum(Tail(s))

\* All sequences over S of length 0..n.
SeqsUpTo(S, n) == UNION {[1..k -> S] : k \in 0..n}

(***************************************************************************)
(* Exact rationals standing for Python floats.                             *)
(***************************************************************************)
RECURSIVE Gcd(_, _)
Gcd(a, b) == IF b = 0 THEN a ELSE Gcd(b, a % b)

Abs(x) == IF x < 0 THEN -x ELSE x

Rat(n, d) ==
    LET g == Gcd(Abs(n), d)
    IN  [n |-> n \div g, d |-> d \div g]

RatAdd(x, y) == Rat(x.n * y.d + y.n * x.d, x.d * y.d)

RatSub(x, y) == Rat(x.n * y.d - y.n * x.d, x.d * y.d)

RatMul(x, y) == Rat(x.n * y.n, x.d * y.d)

RatLe(x, y) == x.n * y.d <= y.n * x.d

RatMax(x, y) == IF RatLe(y, x) THEN x ELSE y

Zero == Rat(0, 1)

\* int(x * 1000) for x >= 0: truncation.
IntMs(x) == (x.n * 1000) \div x.d

\* int(round(x * 1000)) for x >= 0: Python 3 rounds halves to the even integer.
RoundMs(x) ==
    LET num == x.n * 1000
        q == num \div x.d
        r2 == 2 * (num % x.d)
    IN  IF r2 < x.d THEN q
        ELSE IF r2 > x.d THEN q + 1
        ELSE IF q % 2 = 0 THEN q ELSE q + 1

\* int(round(x * 1000)) of a float that a chain of float additions has
\* brought to x: the float is x up to its last bits, and when x * 1000 lies
\* exactly halfway between two integers those bits decide the rounding.
\* drift is the sign of the float's error: 0 when the float is exact.
RoundMsDrift(x, drift) ==
    LET num == x.n * 1000
        q == num \div x.d
        r2 == 2 * (num % x.d)
    IN  IF r2 = x.d /\ drift > 0 THEN q + 1
        ELSE IF r2 = x.d /\ drift < 0 THEN q
        ELSE RoundMs(x)

(***************************************************************************)
(* Characters and the regular expressions of the code.                     *)
(***************************************************************************)
Letters == {"a", "b", "h", "H", "i"}

Digits == {"7"}

\* \w under re.UNICODE: letters, digits, the underscore, and letters outside ASCII.
WordChars == Letters \cup Digits \cup {"_", "e_acute"}

Whitespace == {" "}

\* str.lower()
Lower(c) == IF c = "H" THEN "h" ELSE c

\* What TOKEN_NORMALIZER keeps: [0-9a-z] under re.IGNORECASE.
IsAsciiAlnum(c) == c \in {"a", "b", "h", "H", "i", "7"}

RECURSIVE NormalizeToken(_)
\* _normalize_token: TOKEN_NORMALIZER.sub("", token.lower())
NormalizeToken(token) ==
    IF token = <<>> THEN <<>>
    ELSE LET c == Lower(Head(token))
             rest == NormalizeToken(Tail(token))
         IN  IF IsAsciiAlnum(c) THEN <<c>> \o rest ELSE rest

\* re.search(r"\w", value)
HasWordChar(value) == \E i \in 1..Len(value) : value[i] \in WordChars


(***************************************************************************)
(* difflib.SequenceMatcher(None, a, b, autojunk=False).get_opcodes().      *)
(* Positions are Python's (0-based, half-open); element i is a[i + 1].     *)
(***************************************************************************)
RECURSIVE RunLen(_, _, _, _, _, _)
\* Length of the common run a[i:i+k] = b[j:j+k] inside a[:ahi], b[:bhi].
RunLen(a, b, i, j, ahi, bhi) ==
    IF i < ahi /\ j < bhi /\ a[i + 1] = b[j + 1]
    THEN 1 + RunLen(a, b, i + 1, j + 1, ahi, bhi)
    ELSE 0

\* find_longest_match: the longest block; of those the earliest in a; of
\* those the earliest in b; (alo, blo, 0) when nothing matches.
FindLongestMatch(a, b, alo, ahi, blo, bhi) ==
    LET Cand == (alo..(ahi - 1)) \X (blo..(bhi - 1))
        K == IF Cand = {} THEN 0
             ELSE CHOOSE k \in 0..Len(a) :
                    /\ \E c \in Cand : RunLen(a, b, c[1], c[2], ahi, bhi) = k
                    /\ \A c \in Cand : RunLen(a, b, c[1], c[2], ahi, bhi) <= k
    IN  IF K = 0 THEN <<alo, blo, 0>>
        ELSE LET Best == {c \in Cand : RunLen(a, b, c[1], c[2], ahi, bhi) = K}
                 bi == CHOOSE i \in alo..(ahi - 1) :
                         /\ \E c \in Best : c[1] = i
                         /\ \A c \in Best : c[1] >= i
                 bj == CHOOSE j \in blo..(bhi - 1) :
                         /\ <<bi, j>> \in Best
                         /\ \A c \in Best : c[1] = bi => c[2] >= j
             IN  <<bi, bj, K>>

RECURSIVE MatchingBlocksIn(_, _, _, _, _, _)
\* get_matching_blocks' work queue, with the blocks already in sorted order.
MatchingBlocksIn(a, b, alo, ahi, blo, bhi) ==
    LET m == FindLongestMatch(a, b, alo, ahi, blo, bhi)
    IN  IF m[3] = 0 THEN <<>>
        ELSE (IF alo < m[1] /\ blo < m[2]
              THEN MatchingBlocksIn(a, b, alo, m[1], blo, m[2]) ELSE <<>>)
             \o <<m>>
             \o (IF m[1] + m[3] < ahi /\ m[2] + m[3] < bhi
                 THEN MatchingBlocksIn(a, b, m[1] + m[3], ahi, m[2] + m[3], bhi)
                 ELSE <<>>)

RECURSIVE CollapseAdjacent(_, _)
\* get_matching_blocks: adjacent blocks are merged into one.
CollapseAdjacent(blocks, cur) ==
    IF blocks = <<>> THEN (IF cur[3] > 0 THEN <<cur>> ELSE <<>>)
    ELSE LET n == Head(blocks)
         IN  IF cur[1] + cur[3] = n[1] /\ cur[2] + cur[3] = n[2]
             THEN CollapseAdjacent(Tail(blocks), <<cur[1], cur[2], cur[3] + n[3]>>)
             ELSE (IF cur[3] > 0 THEN <<cur>> ELSE <<>>)
                  \o CollapseAdjacent(Tail(blocks), n)

MatchingBlocks(a, b) ==
    CollapseAdjacent(MatchingBlocksIn(a, b, 0, Len(a), 0, Len(b)), <<0, 0, 0>>)
        \o << <<Len(a), Len(b), 0>> >>

RECURSIVE OpcodesFrom(_, _, _)
OpcodesFrom(blocks, i, j) ==
    IF blocks = <<>> THEN <<>>
    ELSE LET m == Head(blocks)
             tag == IF i < m[1] /\ j < m[2] THEN "replace"
                    ELSE IF i < m[1] THEN "delete"
                    ELSE IF j < m[2] THEN "insert"
                    ELSE ""
         IN  (IF tag # "" THEN << <<tag, i, m[1], j, m[2]>> >> ELSE <<>>)
             \o (IF m[3] > 0
                 THEN << <<"equal", m[1], m[1] + m[3], m[2], m[2] + m[3]>> >>
                 ELSE <<>>)
             \o OpcodesFrom(Tail(blocks), m[1] + m[3], m[2] + m[3])

\* get_opcodes: <<tag, i1, i2, j1, j2>>
GetOpcodes(a, b) == OpcodesFrom(MatchingBlocks(a, b), 0, 0)

\* Python's s[lo:hi] for 0 <= lo <= hi <= len(s).
Slice(s, lo, hi) == [k \in 1..(hi - lo) |-> s[lo + k]]

(***************************************************************************)
(* core/alignment.py                                                       *)
(***************************************************************************)
\* _assign_span without the subdivision: every token of the run is given the
\* whole bounding span.
AssignSpanWhole(token_entries, word_entries, assignments) ==
    IF token_entries = <<>> \/ word_entries = <<>> THEN assignments
    ELSE LET span_start == word_entries[1].start
             span_end == RatMax(span_start, word_entries[Len(word_entries)].end)
         IN  [t \in DOMAIN assignments |->
                IF \E k \in 1..Len(token_entries) : token_entries[k][1] = t
                THEN [start |-> span_start, end |-> span_end]
                ELSE assignments[t]]

\* _assign_span: token_entries is a list of <<token_index, key>>,
\* word_entries a list of words; returns the updated assignments.
AssignSpan(token_entries, word_entries, assignments) ==
    IF token_entries = <<>> \/ word_entries = <<>> THEN assignments
    ELSE LET span_start == word_entries[1].start
             span_end == RatMax(span_start, word_entries[Len(word_entries)].end)
             span_duration == RatMax(Zero, RatSub(span_end, span_start))
             count == Len(token_entries)
             Start(idx) == IF span_duration = Zero THEN span_start
                           ELSE RatAdd(span_start, RatMul(span_duration, Rat(idx, count)))
             End(idx) == IF span_duration = Zero THEN span_end
                         ELSE RatAdd(span_start, RatMul(span_duration, Rat(idx + 1, count)))
             Hit(t) == {k \in 1..count : token_entries[k][1] = t}
         IN  [t \in DOMAIN assignments |->
                IF Hit(t) = {} THEN assignments[t]
                ELSE LET idx == (CHOOSE k \in Hit(t) : TRUE) - 1
                     IN  [start |-> Start(idx),
                          end |-> RatMax(Start(idx), End(idx))]]

\* The "equal" branch interpolating over the run instead of copying each
\* word's own times.
AssignEqualInterpolated(token_word_entries, whisper_entries, i1, i2, j1, assignments) ==
    AssignSpan(Slice(token_word_entries, i1, i2),
               [k \in 1..(i2 - i1) |-> whisper_entries[j1 + k][2]],
               assignments)

\* The "equal" branch of _map_words_to_tokens: token i1+offset takes the
\* start and end of word j1+offset.
AssignEqual(token_word_entries, whisper_entries, i1, i2, j1, assignments) ==
    LET Hit(t) == {o \in 0..(i2 - i1 - 1) : token_word_entries[i1 + o + 1][1] = t}
    IN  [t \in DOMAIN assignments |->
            IF Hit(t) = {} THEN assignments[t]
            ELSE LET o == CHOOSE x \in Hit(t) : TRUE
                     word_info == whisper_entries[j1 + o + 1][2]
                 IN  [start |-> word_info.start, end |-> word_info.end]]

RECURSIVE ApplyOpcodes(_, _, _, _)
ApplyOpcodes(ops, token_word_entries, whisper_entries, assignments) ==
    IF ops = <<>> THEN assignments
    ELSE LET op == Head(ops)
             next ==
                IF op[1] = "equal"
                THEN AssignEqual(token_word_entries, whisper_entries,
                                 op[2], op[3], op[4], assignments)
                ELSE AssignSpan(Slice(token_word_entries, op[2], op[3]),
                                [k \in 1..(op[5] - op[4]) |->
                                    whisper_entries[op[4] + k][2]],
                                assignments)
         IN  ApplyOpcodes(Tail(ops), token_word_entries, whisper_entries, next)

RECURSIVE TokenWordEntries(_, _)
\* <<index, key>> of every token that has a \w character and a non-empty key.
TokenWordEntries(tokens, idx) ==
    IF idx > Len(tokens) THEN <<>>
    ELSE LET value == tokens[idx].value
             normalized == NormalizeToken(value)
         IN  (IF HasWordChar(value) /\ normalized # <<>>
              THEN << <<idx, normalized>> >> ELSE <<>>)
             \o TokenWordEntries(tokens, idx + 1)

RECURSIVE WhisperEntries(_)
\* <<key, word>> of every recognized word with a non-empty key.
WhisperEntries(ws) ==
    IF ws = <<>> THEN <<>>
    ELSE LET normalized == NormalizeToken(Head(ws).text)
         IN  (IF normalized # <<>> THEN << <<normalized, Head(ws)>> >> ELSE <<>>)
             \o WhisperEntries(Tail(ws))

\* The assignments dict of _map_words_to_tokens before its post-pass
\* (None where the dict has no key).
Assignments(tokens, ws) ==
    LET token_word_entries == TokenWordEntries(tokens, 1)
        whisper_entries == WhisperEntries(ws)
        a == [k \in 1..Len(token_word_entries) |-> token_word_entries[k][2]]
        b == [k \in 1..Len(whisper_entries) |-> whisper_entries[k][1]]
    IN  ApplyOpcodes(GetOpcodes(a, b), token_word_entries, whisper_entries,
                     [t \in 1..Len(tokens) |-> None])

\* No post-pass: the assignments are returned as they are.
PostPassCopied(assignments, idx, last_end) == assignments

RECURSIVE PostPassTimedOnly(_, _, _)
\* A post-pass that returns the timed entries only.
PostPassTimedOnly(assignments, idx, last_end) ==
    IF idx > Len(assignments) THEN <<>>
    ELSE IF assignments[idx] = None
         THEN PostPassTimedOnly(assignments, idx + 1, last_end)
         ELSE LET start == RatMax(last_end, assignments[idx].start)
                  end == RatMax(start, assignments[idx].end)
              IN  << [start |-> start, end |-> end] >>
                  \o PostPassTimedOnly(assignments, idx + 1, end)

RECURSIVE PostPass(_, _, _)
\* The post-pass of _map_words_to_tokens (last_end starts at 0.0).
PostPass(assignments, idx, last_end) ==
    IF idx > Len(assignments) THEN <<>>
    ELSE IF assignments[idx] = None
         THEN <<None>> \o PostPass(assignments, idx + 1, last_end)
         ELSE LET start == RatMax(last_end, assignments[idx].start)
                  end == RatMax(start, assignments[idx].end)
              IN  << [start |-> start, end |-> end] >>
                  \o PostPass(assignments, idx + 1, end)

\* _map_words_to_tokens
MapWordsToTokens(tokens, ws) ==
    IF TokenWordEntries(tokens, 1) = <<>> \/ WhisperEntries(ws) = <<>>
    THEN [t \in 1..Len(tokens) |-> None]
    ELSE PostPass(Assignments(tokens, ws), 1, Zero)


(***************************************************************************)
(* tts_providers/kokoro_tts_provider.py                                    *)
(***************************************************************************)
PAUSE_TOKENS == {".", "!", "?", ";", ":"}

MIN_TOKEN_WEIGHT == 3

RECURSIVE WordRunEnd(_, _)
\* End (0-based, exclusive) of the run [\w]+ that starts at position p.
WordRunEnd(text, p) ==
    IF p < Len(text) /\ text[p + 1] \in WordChars THEN WordRunEnd(text, p + 1) ELSE p

RECURSIVE WordTokenEnd(_, _)
\* End of (?:['\-][\w]+)* continued from position e.
WordTokenEnd(text, e) ==
    IF e + 1 < Len(text) /\ text[e + 1] \in {"'", "-"} /\ text[e + 2] \in WordChars
    THEN WordTokenEnd(text, WordRunEnd(text, e + 1))
    ELSE e

\* The weights without their floor MIN_TOKEN_WEIGHT.
DetermineTokenWeightNoFloor(token) ==
    IF token = <<>> THEN MIN_TOKEN_WEIGHT
    ELSE IF Len(token) = 1 /\ token[1] \in PAUSE_TOKENS THEN Len(token) + 8
    ELSE IF \A i \in 1..Len(token) : token[i] \notin WordChars THEN Len(token) + 4
    ELSE Len(token)

\* _determine_token_weight
DetermineTokenWeight(token) ==
    IF token = <<>> THEN MIN_TOKEN_WEIGHT
    ELSE IF Len(token) = 1 /\ token[1] \in PAUSE_TOKENS
         THEN Max(MIN_TOKEN_WEIGHT, Len(token) + 8)
    ELSE IF \A i \in 1..Len(token) : token[i] \notin WordChars
         THEN Max(MIN_TOKEN_WEIGHT, Len(token) + 4)
    ELSE Max(MIN_TOKEN_WEIGHT, Len(token))

RECURSIVE TokenizeFrom(_, _, _)
\* TOKEN_PATTERN.finditer(text) from position p on.
TokenizeFrom(text, base_offset, p) ==
    IF p >= Len(text) THEN <<>>
    ELSE IF text[p + 1] \in Whitespace THEN TokenizeFrom(text, base_offset, p + 1)
    ELSE LET e == IF text[p + 1] \in WordChars
                  THEN WordTokenEnd(text, WordRunEnd(text, p))
                  ELSE p + 1
             value == Slice(text, p, e)
         IN  << [value |-> value,
                 char_start |-> base_offset + p,
                 char_end |-> base_offset + e,
                 length |-> e - p,
                 weight |-> DetermineTokenWeight(value)] >>
             \o TokenizeFrom(text, base_offset, e)

\* A pattern without its second alternative [^\s]: only word tokens.
TokenizeWordsOnly(text, base_offset) ==
    SelectSeq(TokenizeFrom(text, base_offset, 0), LAMBDA t : t.value[1] \in WordChars)

\* _tokenize
Tokenize(text, base_offset) == TokenizeFrom(text, base_offset, 0)

\* Amplitudes are in units of 1e-6 of full scale.
RECURSIVE MaxAmplitude(_)
MaxAmplitude(samples) ==
    IF samples = <<>> THEN 0 ELSE Max(Abs(Head(samples)), MaxAmplitude(Tail(samples)))

\* _analyze_audio on a mono buffer read at sample_rate.
AnalyzeAudio(samples, sample_rate) ==
    LET frames == Len(samples)
        max_amplitude == MaxAmplitude(samples)
        \* amplitudes >= max(1e-4, max_amplitude * 0.005)
        Loud(i) == /\ Abs(samples[i]) >= 100
                   /\ Abs(samples[i]) * 1000 >= max_amplitude * 5
        non_silent == {i \in 1..frames : Loud(i)}
        first_non_silent == (CHOOSE i \in non_silent : \A j \in non_silent : i <= j) - 1
        last_non_silent == (CHOOSE i \in non_silent : \A j \in non_silent : i >= j) - 1
        duration == Rat(frames, sample_rate)
    IN  IF frames = 0
        THEN [duration |-> Zero, leading_silence |-> Zero, trailing_silence |-> Zero]
        ELSE IF max_amplitude <= 1
        THEN [duration |-> duration, leading_silence |-> Zero, trailing_silence |-> Zero]
        ELSE IF non_silent = {}
        THEN [duration |-> duration, leading_silence |-> Zero,
              trailing_silence |-> duration]
        ELSE [duration |-> duration,
              leading_silence |-> RatMax(Zero, Rat(first_non_silent, sample_rate)),
              trailing_silence |->
                  RatMax(Zero, Rat(frames - last_non_silent - 1, sample_rate))]

RECURSIVE CountChunkTokens(_, _, _)
\* The while loop collecting chunk_tokens: how many tokens from index on
\* start before chunk_end.
CountChunkTokens(tokens, index, chunk_end) ==
    IF index <= Len(tokens) /\ tokens[index].char_start < chunk_end
    THEN 1 + CountChunkTokens(tokens, index + 1, chunk_end)
    ELSE 0

Timing(token, start_ms, end_ms) ==
    [token |-> token.value, start_ms |-> start_ms, end_ms |-> end_ms,
     char_start |-> token.char_start, char_end |-> token.char_end]

RECURSIVE ChunkTimingsNoRemainder(_, _, _, _, _, _, _)
\* The inner loop with `remaining` never reduced: the last token is given the
\* whole effective duration.
ChunkTimingsNoRemainder(chunk_tokens, idx, effective_duration, total_weight, remaining, token_start, drift) ==
    IF idx > Len(chunk_tokens) THEN <<>>
    ELSE LET token == chunk_tokens[idx]
             token_duration ==
                IF idx = Len(chunk_tokens) THEN remaining
                ELSE RatMul(effective_duration, Rat(token.weight, total_weight))
             token_end == RatAdd(token_start, token_duration)
         IN  << Timing(token,
                       RoundMsDrift(token_start, IF idx = 1 THEN 0 ELSE drift),
                       RoundMsDrift(token_end, drift)) >>
             \o ChunkTimingsNoRemainder(chunk_tokens, idx + 1, effective_duration,
                                        total_weight, remaining, token_end, drift)

RECURSIVE ChunkTimings(_, _, _, _, _, _, _)
\* The inner loop of _build_word_timings_estimate over one chunk's tokens.
\* The first token_start is audio_offset + leading_silence; every later
\* cursor value is a running float sum of token durations (drift). A chunk
\* of one token without leading silence adds the chunk duration itself to
\* audio_offset, as the chunk loop does, and has no drift.
ChunkTimings(chunk_tokens, idx, effective_duration, total_weight, remaining, token_start, drift) ==
    IF idx > Len(chunk_tokens) THEN <<>>
    ELSE LET token == chunk_tokens[idx]
             last == (idx = Len(chunk_tokens))
             token_duration ==
                IF last THEN remaining
                ELSE RatMul(effective_duration, Rat(token.weight, total_weight))
             remaining2 ==
                IF last THEN remaining
                ELSE RatMax(Zero, RatSub(remaining, token_duration))
             token_end == RatAdd(token_start, token_duration)
         IN  << Timing(token,
                       RoundMsDrift(token_start, IF idx = 1 THEN 0 ELSE drift),
                       RoundMsDrift(token_end, drift)) >>
             \o ChunkTimings(chunk_tokens, idx + 1, effective_duration, total_weight,
                             remaining2, token_end, drift)

RECURSIVE EstimateFrom(_, _, _, _, _, _)
\* The loop of _build_word_timings_estimate from record r and token index on
\* (both 1-based), and the trailing loop over the tokens left.
EstimateFrom(records, r, tokens, index, audio_offset, drift) ==
    IF r > Len(records)
    THEN [k \in 1..(Len(tokens) - index + 1) |->
            Timing(tokens[index + k - 1], RoundMs(audio_offset), RoundMs(audio_offset))]
    ELSE LET record == records[r]
             chunk_end == record.char_offset + Len(record.text)
             count == CountChunkTokens(tokens, index, chunk_end)
             chunk_tokens == [k \in 1..count |-> tokens[index + k - 1]]
             total_weight == SeqSum([k \in 1..count |-> chunk_tokens[k].weight])
             leading_silence == RatMax(Zero, record.leading_silence)
             effective_duration == RatMax(Zero, RatSub(record.duration, leading_silence))
             rest == EstimateFrom(records, r + 1, tokens, index + count,
                                  RatAdd(audio_offset, record.duration), drift)
         IN  IF count = 0 \/ total_weight = 0 THEN rest
             ELSE ChunkTimings(chunk_tokens, 1, effective_duration, total_weight,
                               effective_duration, RatAdd(audio_offset, leading_silence),
                               IF count >= 2 \/ leading_silence # Zero THEN drift ELSE 0)
                  \o rest

\* _build_word_timings_estimate; drift is the sign of the rounding error the
\* float cursor token_start picks up as token durations are added to it.
BuildWordTimingsEstimate(records, tokens, drift) ==
    EstimateFrom(records, 1, tokens, 1, Zero, drift)

\* The ways float rounding can fall for the cursor: below, exact, above.
FloatDrifts == {-1, 0, 1}

\* The None that align_tokens_with_audio returns in place of a list (a list it
\* returns has one entry per token and is never empty).
Unavailable == <<>>

\* `alignment and any(entry for entry in alignment if entry)`
HasTimedEntry(al) == al # Unavailable /\ \E i \in 1..Len(al) : al[i] # None

\* The merge loop of _build_precise_timings.
MergeAlignment(heuristic, al) ==
    [i \in 1..Len(heuristic) |->
        IF al[i] = None THEN heuristic[i]
        ELSE LET start_ms == IntMs(al[i].start)
                 end_ms == IntMs(al[i].end)
             IN  [heuristic[i] EXCEPT !.start_ms = start_ms,
                                      !.end_ms = Max(start_ms, end_ms)]]

\* The repair pass left out: the merged list is returned as it is.
RepairPassSkipped(merged, idx, previous_end) == merged

RECURSIVE RepairPass(_, _, _)
\* The repair pass of _build_precise_timings (previous_end starts at 0).
RepairPass(merged, idx, previous_end) ==
    IF idx > Len(merged) THEN <<>>
    ELSE LET start_ms == Max(merged[idx].start_ms, previous_end)
             end_ms == Max(merged[idx].end_ms, start_ms)
         IN  << [merged[idx] EXCEPT !.start_ms = start_ms, !.end_ms = end_ms] >>
             \o RepairPass(merged, idx + 1, end_ms)

\* _build_precise_timings without its fallback: nothing is returned when the
\* alignment has no timed entry.
BuildPreciseTimingsNoFallback(heuristic, al) ==
    IF HasTimedEntry(al)
    THEN RepairPass(MergeAlignment(heuristic, al), 1, 0)
    ELSE <<>>

\* _build_precise_timings, given the heuristic timings and the alignment.
BuildPreciseTimings(heuristic, al) ==
    IF HasTimedEntry(al)
    THEN RepairPass(MergeAlignment(heuristic, al), 1, 0)
    ELSE heuristic

\* align_tokens_with_audio, given the words the recognition backend reports
\* (none when no backend is installed, loads, transcribes or returns words).
AlignTokensWithAudio(tokens, ws) ==
    IF tokens = <<>> \/ ws = <<>> THEN Unavailable ELSE MapWordsToTokens(tokens, ws)

(***************************************************************************)
(* Specification SpecAlign: _map_words_to_tokens applied to every token    *)
(* list and every recognized-word list within the bounds.                  *)
(***************************************************************************)
MaxTokens == 3

MaxWords == 2

\* Token values as the tokenizer produces them: a capitalised word, a
\* lower-case word, a punctuation mark.
TokenValues == { <<"H", "i">>, <<"a">>, <<".">> }

\* Texts of recognized words (the last one normalizes to nothing).
WordTexts == { <<"h", "i">>, <<"a">>, <<".">> }

\* <<start, end>> of a recognized word in milliseconds: two adjacent words
\* and one whose end lies before its start.
WordSpansMs == { <<0, 2>>, <<2, 5>>, <<5, 2>> }

Seconds(ms) == Rat(ms, 1000)

WordsOver(texts, spans) ==
    {[text |-> t, start |-> Seconds(sp[1]), end |-> Seconds(sp[2])] :
        t \in texts, sp \in spans}

RecognizedWords == WordsOver(WordTexts, WordSpansMs)

\* run() has not ended: no exception, nothing logged.
NoOutcome == [ended |-> "no", exc |-> "none", at |-> "none", log |-> {}]

\* No manifest.json in the output folder.
AbsentManifest == [state |-> "absent", chapters |-> <<>>]

\* No call of align_tokens_with_audio under way.
IdleBackends ==
    /\ backend = "auto" /\ backend_queue = <<>> /\ invoked = <<>>
    /\ chapter_result = "none"

\* The server as it starts: no job, no book on disk.
IdleServer ==
    /\ tasks_status = [job_id \in {} |-> None] /\ jobs = <<>>
    /\ output_dir = {} /\ books_dir = {} /\ deleted = {}

IdleRun ==
    /\ pc = "idle" /\ chapters = <<>> /\ chapter_start = 0 /\ chapter_end = 0
    /\ worker_count = 0 /\ kokoro_devices = <<>> /\ prompt = "skip"
    /\ found = AbsentManifest
    /\ taskq = <<>> /\ workers = <<>>
    /\ results = <<>> /\ raised = {} /\ manifest = AbsentManifest
    /\ outcome = NoOutcome

InitAlign ==
    /\ IdleRun /\ IdleBackends /\ IdleServer
    /\ tpc = "input"
    /\ chunks = <<>> /\ chunk_records = <<>> /\ estimate = <<>> /\ timings = <<>>
    /\ all_tokens \in SeqsUpTo([value : TokenValues], MaxTokens)
    /\ words \in SeqsUpTo(RecognizedWords, MaxWords)
    /\ assigned = <<>>
    /\ alignment = <<>>

\* One call _map_words_to_tokens(tokens, words).
MapWords ==
    /\ tpc = "input"
    /\ assigned' =
          IF TokenWordEntries(all_tokens, 1) = <<>> \/ WhisperEntries(words) = <<>>
          THEN <<>> ELSE Assignments(all_tokens, words)
    /\ alignment' = MapWordsToTokens(all_tokens, words)
    /\ tpc' = "mapped"
    /\ UNCHANGED <<chunks, chunk_records, all_tokens, words, estimate, timings>>
    /\ UNCHANGED <<runVars, backendVars, serverVars>>

NextAlign == MapWords

SpecAlign == InitAlign /\ [][NextAlign]_vars


(***************************************************************************)
(* Properties of the alignment engine (SpecAlign).                         *)
(***************************************************************************)
TokenKeys == [k \in 1..Len(TokenWordEntries(all_tokens, 1)) |->
                TokenWordEntries(all_tokens, 1)[k][2]]

WordKeys == [k \in 1..Len(WhisperEntries(words)) |-> WhisperEntries(words)[k][1]]

\* The recognized words that take part in the comparison.
KeyedWords == [k \in 1..Len(WhisperEntries(words)) |-> WhisperEntries(words)[k][2]]

\* Index in all_tokens of the k-th compared token.
TokenIndex(k) == TokenWordEntries(all_tokens, 1)[k][1]

\* Recognized words' times are non-overlapping and non-decreasing.
WordsOrdered ==
    /\ \A k \in 1..Len(KeyedWords) : RatLe(KeyedWords[k].start, KeyedWords[k].end)
    /\ \A k \in 2..Len(KeyedWords) : RatLe(KeyedWords[k - 1].end, KeyedWords[k].start)

\* C9: when the token keys equal the recognized-word keys position by
\* position and the words' times are ordered, every compared token gets
\* exactly the start and end of its own word (no interpolation).
C9_EqualRunExact ==
    (tpc = "mapped" /\ TokenKeys # <<>> /\ TokenKeys = WordKeys /\ WordsOrdered)
        => \A k \in 1..Len(TokenKeys) :
              alignment[TokenIndex(k)] =
                  [start |-> KeyedWords[k].start, end |-> KeyedWords[k].end]

\* Tokens "Hi", ".", "a" against words hi[0, 2 ms], a[2 ms, 5 ms]: two words
\* of unequal length matched one to one, the capitalised token through its key.
C9_Witness ==
    /\ tpc = "mapped"
    /\ all_tokens = << [value |-> <<"H", "i">>], [value |-> <<".">>], [value |-> <<"a">>] >>
    /\ words = << [text |-> <<"h", "i">>, start |-> Seconds(0), end |-> Seconds(2)],
                  [text |-> <<"a">>, start |-> Seconds(2), end |-> Seconds(5)] >>
    /\ TokenKeys = WordKeys /\ WordsOrdered
    /\ alignment = << [start |-> Seconds(0), end |-> Seconds(2)], None,
                      [start |-> Seconds(2), end |-> Seconds(5)] >>

\* Milliseconds of a recognized word's time (the inputs are whole milliseconds).
MsOf(x) == (x.n * 1000) \div x.d

\* A time x equals num/den milliseconds.
IsMs(x, num, den) == x.n * 1000 * den = num * x.d

\* C10: in a non-equal run of n tokens bounded by recognized words spanning
\* [start, end] (end floored to start), token k (0-based) is assigned
\* [start + (end-start)*k/n, start + (end-start)*(k+1)/n]; with a span of
\* zero duration every token of the run gets that instant.
C10_SpanUniform ==
    (tpc = "mapped" /\ assigned # <<>>)
        => LET entries == TokenWordEntries(all_tokens, 1)
               kw == KeyedWords
               ops == GetOpcodes([k \in 1..Len(entries) |-> entries[k][2]], WordKeys)
           IN  \A o \in 1..Len(ops) :
                 LET op == ops[o]
                     n == op[3] - op[2]
                     s == MsOf(kw[op[4] + 1].start)
                     e == Max(s, MsOf(kw[op[5]].end))
                 IN  (op[1] # "equal" /\ n > 0 /\ op[5] > op[4])
                        => \A k \in 0..(n - 1) :
                             LET a == assigned[entries[op[2] + k + 1][1]]
                             IN  /\ a # None
                                 /\ IsMs(a.start, s * n + (e - s) * k, n)
                                 /\ IsMs(a.end, s * n + (e - s) * (k + 1), n)

\* Three tokens "a" against the single word hi[2 ms, 5 ms]: one replace run,
\* split into [2,3], [3,4], [4,5].
C10_Witness ==
    /\ tpc = "mapped"
    /\ all_tokens = << [value |-> <<"a">>], [value |-> <<"a">>], [value |-> <<"a">>] >>
    /\ words = << [text |-> <<"h", "i">>, start |-> Seconds(2), end |-> Seconds(5)] >>
    /\ GetOpcodes(TokenKeys, WordKeys) = << <<"replace", 0, 3, 0, 1>> >>
    /\ assigned = << [start |-> Seconds(2), end |-> Seconds(3)],
                     [start |-> Seconds(3), end |-> Seconds(4)],
                     [start |-> Seconds(4), end |-> Seconds(5)] >>

\* A token value holds a letter or a digit.
HasAlnum(value) ==
    \E i \in 1..Len(value) : value[i] \in Letters \cup Digits \cup {"e_acute"}

\* C11: when the recognized-word list holds at least one usable word, a token
\* is left unassigned (None) only if it is pure punctuation; every token with
\* alphanumeric content has a timestamp, also in a run without a recognized word.
\* (Violated: a delete run reaches _assign_span with no words, which returns
\* without assigning, so its tokens stay None.)
C11_OnlyPunctuationUnassigned ==
    (tpc = "mapped" /\ WhisperEntries(words) # <<>>)
        => \A i \in 1..Len(all_tokens) :
              alignment[i] = None => ~HasAlnum(all_tokens[i].value)

\* A heuristic timing list for the tokens, with overlapping entries, as the
\* runner would hold it when the alignment comes back.
SomeHeuristic ==
    [i \in 1..Len(all_tokens) |->
        [token |-> all_tokens[i].value, start_ms |-> 10 * (Len(all_tokens) - i),
         end_ms |-> 10 * (Len(all_tokens) - i) + 15, char_start |-> i, char_end |-> i + 1]]

\* The tokens that got a timestamp from a recognized word.
TimedTokens == {i \in 1..Len(assigned) : assigned[i] # None}

\* C21: with no recognized word, or none that keeps a letter or digit, or no
\* token with alphanumeric content, the engine's result has no timed entry and
\* the runner returns its heuristic timings unchanged; when some token got a
\* timestamp the result has one entry per token, timed exactly for the tokens
\* that got one and None for the others.
C21_UnavailableOrPerToken ==
    tpc = "mapped"
        => /\ (\/ \A k \in 1..Len(words) : ~HasAlnum(words[k].text)
               \/ \A i \in 1..Len(all_tokens) : ~HasAlnum(all_tokens[i].value))
                 => /\ ~HasTimedEntry(alignment)
                    /\ BuildPreciseTimings(SomeHeuristic, alignment) = SomeHeuristic
           /\ TimedTokens # {}
                 => /\ HasTimedEntry(alignment)
                    /\ Len(alignment) = Len(all_tokens)
                    /\ \A i \in 1..Len(all_tokens) :
                          IF i \in TimedTokens
                          THEN /\ alignment[i] # None
                               /\ DOMAIN alignment[i] = {"start", "end"}
                          ELSE alignment[i] = None

\* Three tokens of which the middle one, a punctuation mark, stays None
\* between two timed ones.
C21_Witness ==
    /\ tpc = "mapped" /\ Len(all_tokens) = 3
    /\ alignment[1] # None /\ alignment[2] = None /\ alignment[3] # None

\* previous_end when the walk reaches token i: the end of the nearest timed
\* entry before i, 0 when there is none.
PreviousEnd(i) ==
    LET timed == {j \in 1..(i - 1) : alignment[j] # None}
    IN  IF timed = {} THEN Zero
        ELSE alignment[CHOOSE j \in timed : \A k \in timed : k <= j].end

\* C25: in the result of the post-pass an unassigned token is None, and an
\* assigned one has start = max(assigned start, previous_end) and end =
\* max(start, assigned end), previous_end being the end of the last timed
\* entry before it (0 at first); so the timed entries are non-overlapping and
\* non-decreasing whatever the recognized words' times were.
C25_PostPassMonotonic ==
    (tpc = "mapped" /\ assigned # <<>>)
        => /\ Len(alignment) = Len(assigned)
           /\ \A i \in 1..Len(assigned) :
                 IF assigned[i] = None THEN alignment[i] = None
                 ELSE /\ alignment[i] # None
                      /\ alignment[i].start = RatMax(assigned[i].start, PreviousEnd(i))
                      /\ alignment[i].end = RatMax(alignment[i].start, assigned[i].end)
           /\ \A i \in 1..Len(alignment) :
                 alignment[i] # None
                    => /\ RatLe(alignment[i].start, alignment[i].end)
                       /\ RatLe(PreviousEnd(i), alignment[i].start)

\* Words reported out of order: the third token was assigned a time before
\* the end of the first and starts where the first ends; the token between
\* them has no time.
C25_Witness ==
    /\ tpc = "mapped" /\ Len(assigned) = 3
    /\ assigned[1] # None /\ assigned[2] = None /\ assigned[3] # None
    /\ ~RatLe(assigned[1].end, assigned[3].start)
    /\ alignment[3].start = alignment[1].end


(***************************************************************************)
(* Specification SpecTimings: text_to_speech on one chapter. Each chunk is *)
(* synthesized and analysed in turn, then _build_precise_timings runs with *)
(* whatever the recognition backend reports.                               *)
(***************************************************************************)
MaxFrames == 2

\* Samples per second of a synthesized file. At this coarse rate a frame
\* lasts 62.5 ms, so that buffers of a few frames give chunk durations of
\* whole and of half milliseconds.
SampleRate == 16

MaxChapterWords == 2

\* What split_text hands back for a chapter: its text cut into chunks.
ChapterChunks ==
    { << <<"H", "i", " ", "a", ".">> >>,
      << <<"a", ".", " ">>, <<"H", "i">> >>,
      << <<" ">>, <<"a", "'", "b">> >>,
      << <<"_", ",">>, <<".">> >> }

\* Amplitudes of a synthesized sample: digital silence or speech (0.2).
ChapterAmplitudes == {0, 200000}

AudioBuffers == SeqsUpTo(ChapterAmplitudes, MaxFrames)

\* Times the recognition backend reports, in milliseconds.
ChapterWordSpansMs == { <<0, 60>>, <<60, 130>>, <<130, 60>> }

ChapterWords == WordsOver({ <<"h", "i">>, <<"b">> }, ChapterWordSpansMs)

\* running_char_offset after the chunks synthesized so far.
RunningCharOffset == SeqSum([k \in 1..Len(chunk_records) |-> Len(chunk_records[k].text)])

InitTimings ==
    /\ IdleRun /\ IdleBackends /\ IdleServer
    /\ tpc = "synth"
    /\ chunks \in ChapterChunks
    /\ chunk_records = <<>>
    /\ all_tokens = <<>>
    /\ words = <<>>
    /\ assigned = <<>>
    /\ alignment = Unavailable
    /\ estimate = <<>>
    /\ timings = <<>>

\* One iteration of the chunk loop of text_to_speech: _synthesize_speech
\* (the engine writes some audio, _analyze_audio measures it), the chunk
\* record is appended and the chunk's tokens are added.
SynthesizeChunk ==
    /\ tpc = "synth"
    /\ Len(chunk_records) < Len(chunks)
    /\ \E samples \in AudioBuffers :
         LET chunk == chunks[Len(chunk_records) + 1]
             audio_stats == AnalyzeAudio(samples, SampleRate)
         IN  /\ chunk_records' = Append(chunk_records,
                    [text |-> chunk,
                     duration |-> audio_stats.duration,
                     leading_silence |-> audio_stats.leading_silence,
                     trailing_silence |-> audio_stats.trailing_silence,
                     char_offset |-> RunningCharOffset])
             /\ all_tokens' = all_tokens \o Tokenize(chunk, RunningCharOffset)
    /\ UNCHANGED <<tpc, chunks, words, assigned, alignment, estimate, timings>>
    /\ UNCHANGED <<runVars, backendVars, serverVars>>

\* _build_precise_timings after the last chunk: the heuristic baseline, the
\* alignment call, and the merge with its repair pass.
BuildTimings ==
    /\ tpc = "synth"
    /\ Len(chunk_records) = Len(chunks)
    /\ LET reported == {<<ws, AlignTokensWithAudio(all_tokens, ws)>> :
                            ws \in SeqsUpTo(ChapterWords, MaxChapterWords)}
       IN  \E drift \in FloatDrifts :
              LET heuristic == BuildWordTimingsEstimate(chunk_records, all_tokens, drift)
              IN  \E r \in reported :
                     /\ words' = r[1]
                     /\ estimate' = heuristic
                     /\ alignment' = r[2]
                     /\ timings' = BuildPreciseTimings(heuristic, r[2])
    /\ tpc' = "timed"
    /\ UNCHANGED <<chunks, chunk_records, all_tokens, assigned>>
    /\ UNCHANGED <<runVars, backendVars, serverVars>>

NextTimings == SynthesizeChunk \/ BuildTimings

SpecTimings == InitTimings /\ [][NextTimings]_vars

(***************************************************************************)
(* Specification SpecEstimate: _build_word_timings_estimate as a function  *)
(* of its two arguments, for chunk records and token lists as any caller   *)
(* may pass them.                                                          *)
(***************************************************************************)
MaxRecords == 2

MaxEstimateTokens == 3

\* Largest char_start of a token handed to the estimator.
MaxCharStart == 3

\* Chunk texts of one and of two characters.
EstimateTexts == { <<"a">>, <<"a", "b">> }

\* <<duration, leading_silence>> of a chunk in milliseconds, as
\* _analyze_audio can measure them (0 <= leading_silence <= duration).
EstimateStatsMs == { <<0, 0>>, <<5, 0>>, <<5, 2>> }

\* Token weights: the floor, a pause mark's weight and the weight 0 that the
\* estimator guards against (if total_weight == 0).
EstimateWeights == {0, 3, 9}

RECURSIVE RecordsFrom(_, _, _)
\* chunk_records with char_offset running over the texts.
RecordsFrom(texts, stats, k) ==
    IF k > Len(texts) THEN <<>>
    ELSE << [text |-> texts[k],
             duration |-> Seconds(stats[k][1]),
             leading_silence |-> Seconds(stats[k][2]),
             trailing_silence |-> Zero,
             char_offset |-> SeqSum([j \in 1..(k - 1) |-> Len(texts[j])])] >>
         \o RecordsFrom(texts, stats, k + 1)

EstimateRecords ==
    UNION {{RecordsFrom(texts, stats, 1) :
                texts \in [1..n -> EstimateTexts], stats \in [1..n -> EstimateStatsMs]} :
           n \in 0..MaxRecords}

\* Token lists in increasing offset order, one character each.
EstimateTokens ==
    {toks \in SeqsUpTo([value : { <<"a">> }, char_start : 0..MaxCharStart,
                        weight : EstimateWeights], MaxEstimateTokens) :
        \A i \in 2..Len(toks) : toks[i - 1].char_start < toks[i].char_start}

WithCharEnd(toks) ==
    [i \in 1..Len(toks) |->
        [value |-> toks[i].value, char_start |-> toks[i].char_start,
         char_end |-> toks[i].char_start + Len(toks[i].value),
         length |-> Len(toks[i].value), weight |-> toks[i].weight]]

InitEstimate ==
    /\ IdleRun /\ IdleBackends /\ IdleServer
    /\ tpc = "input"
    /\ chunks = <<>> /\ words = <<>> /\ assigned = <<>> /\ alignment = Unavailable
    /\ timings = <<>> /\ estimate = <<>>
    /\ chunk_records \in EstimateRecords
    /\ all_tokens \in {WithCharEnd(toks) : toks \in EstimateTokens}

\* One call _build_word_timings_estimate(chunk_records, tokens).
Estimate ==
    /\ tpc = "input"
    /\ \E drift \in FloatDrifts :
          estimate' = BuildWordTimingsEstimate(chunk_records, all_tokens, drift)
    /\ tpc' = "estimated"
    /\ UNCHANGED <<chunks, chunk_records, all_tokens, words, assigned, alignment, timings>>
    /\ UNCHANGED <<runVars, backendVars, serverVars>>

NextEstimate == Estimate

SpecEstimate == InitEstimate /\ [][NextEstimate]_vars

TokensOfChunk(r) ==
    {i \in 1..Len(all_tokens) :
        /\ all_tokens[i].char_start >= chunk_records[r].char_offset
        /\ all_tokens[i].char_start <
              chunk_records[r].char_offset + Len(chunk_records[r].text)}

RECURSIVE RatSum(_)
RatSum(xs) == IF xs = <<>> THEN Zero ELSE RatAdd(Head(xs), RatSum(Tail(xs)))

\* Where chunk r starts in the chapter audio: the durations before it.
ChunkOffset(r) == RatSum([k \in 1..(r - 1) |-> chunk_records[k].duration])

WeightOf(idxs) ==
    SeqSum([i \in 1..Len(all_tokens) |-> IF i \in idxs THEN all_tokens[i].weight ELSE 0])

\* ms is the time x (seconds) rounded to a nearest millisecond.
NearMs(ms, x) == Abs(ms * x.d - x.n * 1000) * 2 <= x.d

\* C13: in a chunk that has tokens, the first token starts at chunk_offset +
\* leading_silence, each token ends where the next starts, token k ends at
\* chunk_offset + leading_silence + effective_duration * (weight of the
\* tokens up to k) / total_weight, so that the last token ends at
\* chunk_offset + duration and the durations sum to duration -
\* leading_silence; all to the nearest millisecond.
C13_ChunkAllocation ==
    tpc = "timed"
        => \A r \in 1..Len(chunk_records) :
              LET idxs == TokensOfChunk(r)
                  rec == chunk_records[r]
                  begin == RatAdd(ChunkOffset(r), rec.leading_silence)
                  effective == RatSub(rec.duration, rec.leading_silence)
                  total == WeightOf(idxs)
              IN  \A i \in idxs :
                     /\ (i - 1 \notin idxs) => NearMs(estimate[i].start_ms, begin)
                     /\ (i - 1 \in idxs) => estimate[i].start_ms = estimate[i - 1].end_ms
                     /\ NearMs(estimate[i].end_ms,
                               RatAdd(begin, RatMul(effective,
                                   Rat(WeightOf({j \in idxs : j <= i}), total))))
                     /\ (i + 1 \notin idxs) =>
                           NearMs(estimate[i].end_ms, RatAdd(ChunkOffset(r), rec.duration))

\* "Hi a." synthesized to 125 ms with 62.5 ms of leading silence: weights 3,
\* 3 and 9 share the remaining 62.5 ms as 12.5, 12.5 and 37.5 ms.
C13_Witness ==
    /\ tpc = "timed"
    /\ Len(chunk_records) = 1 /\ Len(all_tokens) = 3
    /\ chunk_records[1].duration = Rat(1, 8)
    /\ chunk_records[1].leading_silence = Rat(1, 16)
    /\ [i \in 1..3 |-> all_tokens[i].weight] = <<3, 3, 9>>
    /\ estimate[1].start_ms = 62 /\ estimate[1].end_ms = 75
    /\ estimate[2].start_ms = 75 /\ estimate[3].end_ms = 125

\* C14: the list returned by _build_word_timings_estimate is monotonic:
\* start_ms[i] >= end_ms[i-1] and end_ms[i] >= start_ms[i], also across chunk
\* boundaries.
\* (Violated: a chunk's last end_ms is rounded from the cursor token_start +
\* remaining, the next chunk's first start_ms from audio_offset +
\* leading_silence; on a half-millisecond boundary the two float sums can
\* round to different milliseconds, the earlier one above the later.)
C14_EstimateMonotonic ==
    tpc = "timed"
        => /\ \A i \in 1..Len(estimate) : estimate[i].end_ms >= estimate[i].start_ms
           /\ \A i \in 2..Len(estimate) : estimate[i].start_ms >= estimate[i - 1].end_ms

(***************************************************************************)
(* Specification SpecTokenize: _tokenize(text, base_offset) on bounded     *)
(* texts, called as text_to_speech calls it for a chunk.                   *)
(***************************************************************************)
MaxTextLen == 4

\* A letter, the underscore, a joiner, a pause mark, another mark, a blank.
TextChars == {"a", "_", "'", ".", ",", " "}

\* running_char_offset at the call: the first chunk, or a later one.
BaseOffsets == {0, 5}

InitTokenize ==
    /\ IdleRun /\ IdleBackends /\ IdleServer
    /\ tpc = "text"
    /\ \E text \in SeqsUpTo(TextChars, MaxTextLen), base_offset \in BaseOffsets :
          /\ chunks = << text >>
          /\ chunk_records = << [text |-> text, char_offset |-> base_offset] >>
    /\ all_tokens = <<>> /\ words = <<>> /\ assigned = <<>> /\ alignment = Unavailable
    /\ estimate = <<>> /\ timings = <<>>

\* tokens = list(self._tokenize(chunk, running_char_offset))
TokenizeChunk ==
    /\ tpc = "text"
    /\ all_tokens' = Tokenize(chunk_records[1].text, chunk_records[1].char_offset)
    /\ tpc' = "tokens"
    /\ UNCHANGED <<chunks, chunk_records, words, assigned, alignment, estimate, timings>>
    /\ UNCHANGED <<runVars, backendVars, serverVars>>

NextTokenize == TokenizeChunk

SpecTokenize == InitTokenize /\ [][NextTokenize]_vars

(***************************************************************************)
(* Properties of the tokenizer (SpecTokenize).                             *)
(***************************************************************************)
\* The text the tokens were cut from, and the offset they were given.
TokenizedText == chunk_records[1].text

TokenizedBase == chunk_records[1].char_offset

\* Offsets of the tokens: inside the text, non-empty, value = the slice they
\* delimit, in increasing order without overlap; and the weight floor.
TokenShape ==
    /\ \A i \in 1..Len(all_tokens) :
          LET t == all_tokens[i]
          IN  /\ t.weight >= 3
              /\ t.char_start < t.char_end
              /\ t.char_start >= TokenizedBase
              /\ t.char_end <= TokenizedBase + Len(TokenizedText)
              /\ t.value = Slice(TokenizedText, t.char_start - TokenizedBase,
                                 t.char_end - TokenizedBase)
    /\ \A i \in 2..Len(all_tokens) : all_tokens[i - 1].char_end <= all_tokens[i].char_start

\* C15 as claimed: TokenShape, and the weight is max(3, len+8) for a pause
\* mark, max(3, len+4) for other punctuation without alphanumeric content and
\* max(3, len) for alphanumeric tokens.
\* (Violated: a token of underscores has no alphanumeric content, but it is a
\* \w token and weighs max(3, len).)
C15_WeightByAlnum ==
    tpc = "tokens"
        => /\ TokenShape
           /\ \A i \in 1..Len(all_tokens) :
                 LET t == all_tokens[i]
                     n == Len(t.value)
                 IN  t.weight =
                        IF n = 1 /\ t.value[1] \in PAUSE_TOKENS THEN Max(3, n + 8)
                        ELSE IF ~HasAlnum(t.value) THEN Max(3, n + 4)
                        ELSE Max(3, n)

\* C15 amended: TokenShape, and the weight is 9 for a pause mark, 5 for any
\* other single character outside \w, and max(3, len) for a word token (a
\* run of \w characters, underscores included, with embedded ' or -).
C15_WeightByWordChar ==
    tpc = "tokens"
        => /\ TokenShape
           /\ \A i \in 1..Len(all_tokens) :
                 LET t == all_tokens[i]
                     n == Len(t.value)
                 IN  /\ t.value[1] \notin WordChars => n = 1
                     /\ t.weight =
                           IF t.value[1] \in PAUSE_TOKENS THEN 9
                           ELSE IF t.value[1] \notin WordChars THEN 5
                           ELSE Max(3, n)

\* "_,a." at offset 5: an underscore token, a comma, a word and a pause mark.
C15_Witness ==
    /\ tpc = "tokens"
    /\ TokenizedText = <<"_", ",", "a", ".">> /\ TokenizedBase = 5
    /\ [i \in 1..Len(all_tokens) |-> all_tokens[i].weight] = <<3, 5, 3, 9>>
    /\ [i \in 1..Len(all_tokens) |-> all_tokens[i].char_start] = <<5, 6, 7, 8>>

RECURSIVE TokenSlices(_)
\* The slices [char_start, char_end) of the text, for tokens i.. in order,
\* concatenated.
TokenSlices(i) ==
    IF i > Len(all_tokens) THEN <<>>
    ELSE Slice(TokenizedText, all_tokens[i].char_start - TokenizedBase,
               all_tokens[i].char_end - TokenizedBase) \o TokenSlices(i + 1)

\* C16: tokenizer coverage: the slices [char_start, char_end) of all tokens of
\* tokenize(T, 0), concatenated in order, equal T with all whitespace removed:
\* no non-whitespace character is dropped or emitted twice. (The token list
\* is a function of the text and the offset alone, so a second run returns it
\* again.)
C16_TokensCoverText ==
    (tpc = "tokens" /\ TokenizedBase = 0)
        => TokenSlices(1) = SelectSeq(TokenizedText, LAMBDA c : c \notin Whitespace)

\* "a 'a" at offset 0: three tokens around a blank, the quote on its own.
C16_Witness ==
    /\ tpc = "tokens" /\ TokenizedBase = 0
    /\ TokenizedText = <<"a", " ", "'", "a">>
    /\ Len(all_tokens) = 3
    /\ TokenSlices(1) = <<"a", "'", "a">>

(***************************************************************************)
(* The chapter orchestrator: AudiobookGenerator.run, the worker pool and   *)
(* _write_manifest (specification Spec).                                   *)
(***************************************************************************)
MaxChapters == 3

MaxWorkers == 2

\* Chapter texts: empty, whitespace only, and with content.
ChapterTexts == { <<>>, <<" ">>, <<"a">> }

\* What the parser returns: (title, text) pairs; the title is the chapter's
\* position in the book.
Book(texts) == [i \in 1..Len(texts) |-> [title |-> i, text |-> texts[i]]]

Books == {Book(texts) : texts \in SeqsUpTo(ChapterTexts, MaxChapters)}

RECURSIVE LStrip(_)
LStrip(text) ==
    IF text # <<>> /\ Head(text) \in Whitespace THEN LStrip(Tail(text)) ELSE text

Reverse(s) == [i \in 1..Len(s) |-> s[Len(s) + 1 - i]]

\* str.strip()
Strip(text) == Reverse(LStrip(Reverse(LStrip(text))))

\* A filter that tests the text without stripping it.
FilterChaptersUnstripped(chs) == SelectSeq(chs, LAMBDA c : c.text # <<>>)

\* chapters = [(title, text) for title, text in chapters if text.strip()]
FilterChapters(chs) == SelectSeq(chs, LAMBDA c : Strip(c.text) # <<>>)

\* A range check that forgets the upper bound of chapter_start and compares
\* start with end before -1 is normalised.
RangeErrorLenient(start, end, n) ==
    IF start < 1 THEN "chapter_start"
    ELSE IF end < -1 \/ end > n THEN "chapter_end"
    ELSE IF end # -1 /\ start > end THEN "start_larger_than_end"
    ELSE "none"

\* The three range checks of run(): the value the ValueError names, or "none".
RangeError(start, end, n) ==
    IF start < 1 \/ start > n THEN "chapter_start"
    ELSE IF end < -1 \/ end > n THEN "chapter_end"
    ELSE IF start > (IF end = -1 THEN n ELSE end) THEN "start_larger_than_end"
    ELSE "none"

\* chapters[chapter_start - 1 : chapter_end], for start >= 1 and end >= 0
ChaptersToProcess(chs, start, end) ==
    [k \in 1..Max(0, Min(end, Len(chs)) - (start - 1)) |-> chs[start - 1 + k]]

\* The indices of tasks: enumerate(chapters_to_process, start=chapter_start)
TaskIndices(chs, start, end) ==
    [k \in 1..Len(ChaptersToProcess(chs, start, end)) |-> start - 1 + k]

\* A chapter whose failure is reported as success.
ProcessChapterSwallow(raises) == TRUE

\* process_chapter: True, or False when its body raised an Exception.
ProcessChapter(raises) == ~raises

\* success_map.get(offset, False), success_map = {idx: success} (last wins)
SuccessOf(res, offset) ==
    LET hits == {k \in 1..Len(res) : res[k][1] = offset}
    IN  IF hits = {} THEN FALSE
        ELSE res[CHOOSE k \in hits : \A j \in hits : j <= k][2]

\* Rows emitted in the order in which the results arrived.
ManifestRowsByCompletion(to_process, start, res) ==
    [k \in 1..Len(res) |->
        [index |-> res[k][1],
         title |-> to_process[res[k][1] - start + 1].title,
         status |-> IF res[k][2] THEN "ready" ELSE "failed"]]

\* chapters_manifest of _write_manifest
ManifestRows(to_process, start, res) ==
    [k \in 1..Len(to_process) |->
        [index |-> start - 1 + k,
         title |-> to_process[k].title,
         status |-> IF SuccessOf(res, start - 1 + k) THEN "ready" ELSE "failed"]]

\* A manifest left by an earlier run over another book.
EarlierManifest ==
    [state |-> "complete",
     chapters |-> << [index |-> 1, title |-> 0, status |-> "ready"] >>]

\* A write that keeps the rows of the file it finds and adds the new ones.
DumpManifestPatched(old, rows) == [state |-> "complete", chapters |-> old.chapters \o rows]

\* open(manifest_path, "w") and json.dump(payload): the file holds the new
\* payload, whatever it held.
DumpManifest(old, rows) == [state |-> "complete", chapters |-> rows]

\* A manifest.json opened for writing whose dump did not finish.
PartialManifest == [state |-> "partial", chapters |-> <<>>]

\* Exception classes that `except Exception` catches.
IsException(exc) == exc \in {"ValueError", "OSError", "RuntimeError"}

\* run() without its KeyboardInterrupt clause.
RunExceptNoInterrupt(exc) ==
    IF IsException(exc) THEN [ended |-> "returned", log |-> {"error"}]
    ELSE [ended |-> "propagated", log |-> {}]

\* The except clauses of run(): how the call ends and what is logged.
RunExcept(exc) ==
    IF exc = "KeyboardInterrupt" THEN [ended |-> "returned", log |-> {"interrupted"}]
    ELSE IF IsException(exc) THEN [ended |-> "returned", log |-> {"error"}]
    ELSE [ended |-> "propagated", log |-> {}]

\* An exception of class exc with message msg leaves the try block of run().
Raise(exc, msg) ==
    /\ pc' = "done"
    /\ outcome' = [ended |-> RunExcept(exc).ended, exc |-> exc, at |-> pc,
                   log |-> outcome.log \cup RunExcept(exc).log \cup {msg}]

\* A pool slot whose process is gone.
NoProcess == [identity |-> 0, device |-> <<"none", 0>>, tts_model |-> 0]

\* Pool.terminate(): every worker process is killed, whatever it was doing.
Terminated(ws) == [w \in 1..Len(ws) |-> [st |-> "terminated", job |-> ws[w].job] @@ NoProcess]

MaxDevices == 2

\* Processes the parent has started before the run creates its pool.
MaxEarlierProcesses == 1

\* Highest _identity in a run: the pool replaces workers lost in init_worker
\* until the parent's process counter reaches it.
MaxProcesses == 2

\* Calls of get_tts_model in a chapter job that synthesizes (one per chunk).
MaxChunkCalls == 2

\* A device: <<"cpu", 0>> or <<"cuda", i>>; <<"none", 0>> before init_worker.
DevicePools == {[i \in 1..n |-> <<"cuda", i - 1>>] : n \in {0, MaxDevices}}

\* config.device as the backend sets it: the first device of the pool, or cpu.
ConfigDevice(devices) == IF devices = <<>> THEN <<"cpu", 0>> ELSE devices[1]

\* init_worker: config.device of the process with _identity = (identity,).
InitWorkerDevice(devices, identity) ==
    IF devices # <<>> THEN devices[((identity - 1) % Len(devices)) + 1]
    ELSE ConfigDevice(devices)

\* A get_tts_model that builds a new engine on every call.
GetTtsModelReload(tts_model) == tts_model + 1

\* get_tts_model: tts_model counts the engines the provider has built; 0 is
\* the None of a provider that has built none.
GetTtsModel(tts_model) == IF tts_model = 0 THEN 1 ELSE tts_model

RECURSIVE GetTtsModelTimes(_, _)
GetTtsModelTimes(tts_model, calls) ==
    IF calls = 0 THEN tts_model ELSE GetTtsModelTimes(GetTtsModel(tts_model), calls - 1)

\* The _identity the next process of the pool gets: a counter of the parent.
NextIdentity(ws) ==
    1 + (CHOOSE m \in {ws[w].identity : w \in 1..Len(ws)} :
            \A w \in 1..Len(ws) : ws[w].identity <= m)

IdleTimings ==
    /\ tpc = "idle" /\ chunks = <<>> /\ chunk_records = <<>> /\ all_tokens = <<>>
    /\ words = <<>> /\ assigned = <<>> /\ alignment = <<>> /\ estimate = <<>>
    /\ timings = <<>>
    /\ IdleBackends /\ IdleServer

Init ==
    /\ pc = "start"
    /\ chapters \in Books
    /\ chapter_start \in 0..(MaxChapters + 2)
    /\ chapter_end \in (-2)..(MaxChapters + 1)
    /\ worker_count \in 0..MaxWorkers
    /\ kokoro_devices \in DevicePools
    /\ prompt \in {"skip", "y", "n"}
    /\ taskq = <<>> /\ workers = <<>> /\ results = <<>> /\ raised = {}
    /\ manifest \in {AbsentManifest, EarlierManifest}
    /\ found = manifest
    /\ outcome = NoOutcome
    /\ IdleTimings

\* get_book_parser, get_tts_provider, makedirs, get_chapters and the filter.
GetChapters ==
    /\ pc = "start"
    /\ chapters' = FilterChapters(chapters)
    /\ pc' = "validating"
    /\ UNCHANGED <<chapter_start, chapter_end, worker_count, kokoro_devices, found, prompt, taskq, workers,
                   results, raised, manifest, outcome>>
    /\ UNCHANGED <<timingVars, backendVars, serverVars>>

\* The parser, the provider or makedirs raises before the chapters are read.
StartupFails ==
    /\ pc = "start"
    /\ \E exc \in {"RuntimeError", "OSError"} : Raise(exc, "startup")
    /\ UNCHANGED <<chapters, chapter_start, chapter_end, worker_count, kokoro_devices, found, prompt, taskq,
                   workers, results, raised, manifest>>
    /\ UNCHANGED <<timingVars, backendVars, serverVars>>

\* The range checks; chapter_end = -1 becomes len(chapters).
Validate ==
    /\ pc = "validating"
    /\ LET err == RangeError(chapter_start, chapter_end, Len(chapters))
       IN  IF err # "none"
           THEN /\ Raise("ValueError", err)
                /\ UNCHANGED chapter_end
           ELSE /\ chapter_end' = IF chapter_end = -1 THEN Len(chapters) ELSE chapter_end
                /\ pc' = "prompting"
                /\ UNCHANGED outcome
    /\ UNCHANGED <<chapters, chapter_start, worker_count, kokoro_devices, found, prompt, taskq, workers,
                   results, raised, manifest>>
    /\ UNCHANGED <<timingVars, backendVars, serverVars>>

\* The cost estimate and the prompt: confirm_conversion() calls exit(0) on
\* any answer but "y".
Prompt ==
    /\ pc = "prompting"
    /\ IF prompt = "skip" \/ prompt = "y"
       THEN pc' = "dispatch" /\ UNCHANGED outcome
       ELSE Raise("SystemExit", "aborted")
    /\ UNCHANGED <<chapters, chapter_start, chapter_end, worker_count, kokoro_devices, found, prompt, taskq,
                   workers, results, raised, manifest>>
    /\ UNCHANGED <<timingVars, backendVars, serverVars>>

\* Pool(processes=worker_count, initializer=init_worker) and imap_unordered,
\* which submits every task at once. The processes take the next values of
\* the parent's process counter: run() is called in the server process, once
\* per upload, so earlier pools of that process have used the first ones.
CreatePool ==
    /\ pc = "dispatch"
    /\ IF worker_count < 1
       THEN /\ Raise("ValueError", "pool")
            /\ UNCHANGED <<workers, taskq>>
       ELSE /\ \E earlier \in {0, MaxEarlierProcesses} :
                  workers' = [w \in 1..worker_count |->
                                [st |-> "starting", job |-> 0, identity |-> earlier + w,
                                 device |-> <<"none", 0>>, tts_model |-> 0]]
            /\ taskq' = TaskIndices(chapters, chapter_start, chapter_end)
            /\ pc' = "running"
            /\ UNCHANGED outcome
    /\ UNCHANGED <<chapters, chapter_start, chapter_end, worker_count, kokoro_devices, found, prompt,
                   results, raised, manifest>>
    /\ UNCHANGED <<timingVars, backendVars, serverVars>>

SetWorker(w, st, job) == workers' = [workers EXCEPT ![w].st = st, ![w].job = job]

\* init_worker returns: the worker process has its tts_provider.
WorkerInit(w) ==
    /\ pc = "running" /\ workers[w].st = "starting"
    /\ workers' = [workers EXCEPT
          ![w].st = "ready",
          ![w].device = InitWorkerDevice(kokoro_devices, workers[w].identity)]
    /\ UNCHANGED <<pc, chapters, chapter_start, chapter_end, worker_count, kokoro_devices, found, prompt,
                   taskq, results, raised, manifest, outcome>>
    /\ UNCHANGED <<timingVars, backendVars, serverVars>>

\* init_worker raises (get_tts_provider fails in the worker): the process
\* exits.
WorkerInitFails(w) ==
    /\ pc = "running" /\ workers[w].st = "starting"
    /\ NextIdentity(workers) <= MaxProcesses
    /\ SetWorker(w, "dead", 0)
    /\ UNCHANGED <<pc, chapters, chapter_start, chapter_end, worker_count, kokoro_devices, found, prompt,
                   taskq, results, raised, manifest, outcome>>
    /\ UNCHANGED <<timingVars, backendVars, serverVars>>

\* The pool replaces a worker process that exited: a new process, with the
\* next _identity and a tts_provider of its own still to be made.
Respawn(w) ==
    /\ pc = "running" /\ workers[w].st = "dead"
    /\ workers' = [workers EXCEPT
          ![w] = [st |-> "starting", job |-> 0, identity |-> NextIdentity(workers),
                  device |-> <<"none", 0>>, tts_model |-> 0]]
    /\ UNCHANGED <<pc, chapters, chapter_start, chapter_end, worker_count, kokoro_devices, found, prompt,
                   taskq, results, raised, manifest, outcome>>
    /\ UNCHANGED <<timingVars, backendVars, serverVars>>

\* A worker that reads the next task and leaves it in the queue.
TakeTaskNoPop(w) ==
    /\ pc = "running" /\ workers[w].st = "ready" /\ taskq # <<>>
    /\ SetWorker(w, "busy", Head(taskq))
    /\ UNCHANGED <<pc, chapters, chapter_start, chapter_end, worker_count, kokoro_devices, found, prompt,
                   taskq, results, raised, manifest, outcome>>
    /\ UNCHANGED <<timingVars, backendVars, serverVars>>

\* An initialised worker takes the next task of the queue.
TakeTask(w) ==
    /\ pc = "running" /\ workers[w].st = "ready" /\ taskq # <<>>
    /\ SetWorker(w, "busy", Head(taskq))
    /\ taskq' = Tail(taskq)
    /\ UNCHANGED <<pc, chapters, chapter_start, chapter_end, worker_count, kokoro_devices, found, prompt,
                   results, raised, manifest, outcome>>
    /\ UNCHANGED <<timingVars, backendVars, serverVars>>

\* process_chapter_wrapper returns (idx, success); run() appends it. A job
\* that returns True called get_tts_model once per chunk; one that raises is
\* taken to raise before its first chunk (a later raise leaves the provider as
\* a job that returns True does).
CompleteTask(w) ==
    /\ pc = "running" /\ workers[w].st = "busy"
    /\ \E raises \in BOOLEAN :
          /\ results' = Append(results, <<workers[w].job, ProcessChapter(raises)>>)
          /\ raised' = IF raises THEN raised \cup {workers[w].job} ELSE raised
          /\ workers' = [workers EXCEPT
                ![w].st = "ready", ![w].job = 0,
                ![w].tts_model = GetTtsModelTimes(workers[w].tts_model,
                                                  IF raises THEN 0 ELSE MaxChunkCalls)]
    /\ UNCHANGED <<pc, chapters, chapter_start, chapter_end, worker_count, kokoro_devices, found, prompt,
                   taskq, manifest, outcome>>
    /\ UNCHANGED <<timingVars, backendVars, serverVars>>

\* The imap_unordered loop ends after one result per task; the with block
\* exits and terminates the pool.
Aggregate ==
    /\ pc = "running"
    /\ Len(results) = Len(TaskIndices(chapters, chapter_start, chapter_end))
    /\ workers' = Terminated(workers)
    /\ pc' = "writing"
    /\ UNCHANGED <<chapters, chapter_start, chapter_end, worker_count, kokoro_devices, found, prompt,
                   taskq, results, raised, manifest, outcome>>
    /\ UNCHANGED <<timingVars, backendVars, serverVars>>

\* _write_manifest: the file is written, or makedirs/open raises, or the dump
\* raises after the file was opened for writing; the exception is logged and
\* not re-raised, and run() returns.
WriteManifest ==
    /\ pc = "writing"
    /\ \E fails \in {"no", "open", "dump"} :
          /\ manifest' =
                IF fails = "open" THEN manifest
                ELSE IF fails = "dump" THEN PartialManifest
                ELSE DumpManifest(manifest,
                                  ManifestRows(
                                      ChaptersToProcess(chapters, chapter_start, chapter_end),
                                      chapter_start, results))
          /\ outcome' = [ended |-> "returned", exc |-> "none", at |-> pc,
                         log |-> IF fails = "no" THEN {"manifest_written"}
                                 ELSE {"manifest_failed"}]
    /\ pc' = "done"
    /\ UNCHANGED <<chapters, chapter_start, chapter_end, worker_count, kokoro_devices, found, prompt,
                   taskq, workers, results, raised>>
    /\ UNCHANGED <<timingVars, backendVars, serverVars>>

\* Ctrl+C anywhere in the try block of run(): a pool that exists is
\* terminated; an interrupt inside the dump leaves the file unfinished.
Interrupt ==
    /\ pc \in {"start", "validating", "prompting", "dispatch", "running", "writing"}
    /\ Raise("KeyboardInterrupt", "ctrl_c")
    /\ workers' = Terminated(workers)
    /\ \/ UNCHANGED manifest
       \/ pc = "writing" /\ manifest' = PartialManifest
    /\ UNCHANGED <<chapters, chapter_start, chapter_end, worker_count, kokoro_devices, found, prompt,
                   taskq, results, raised>>
    /\ UNCHANGED <<timingVars, backendVars, serverVars>>

\* An exception reaches run() while the jobs run (a task or a result that
\* cannot be pickled, a broken pool).
RunningFails ==
    /\ pc = "running"
    /\ Raise("RuntimeError", "pool")
    /\ workers' = Terminated(workers)
    /\ UNCHANGED <<chapters, chapter_start, chapter_end, worker_count, kokoro_devices, found, prompt,
                   taskq, results, raised, manifest>>
    /\ UNCHANGED <<timingVars, backendVars, serverVars>>

Next ==
    \/ GetChapters
    \/ StartupFails
    \/ Validate
    \/ Prompt
    \/ CreatePool
    \/ \E w \in 1..Len(workers) : WorkerInit(w)
    \/ \E w \in 1..Len(workers) : WorkerInitFails(w)
    \/ \E w \in 1..Len(workers) : Respawn(w)
    \/ \E w \in 1..Len(workers) : TakeTask(w)
    \/ \E w \in 1..Len(workers) : CompleteTask(w)
    \/ Aggregate
    \/ WriteManifest
    \/ Interrupt
    \/ RunningFails

Spec == Init /\ [][Next]_vars

(***************************************************************************)
(* Properties of the timing builder (SpecTimings).                         *)
(***************************************************************************)
\* start_ms[i] >= end_ms[i-1] and end_ms[i] >= start_ms[i]
Monotonic(ts) ==
    /\ \A i \in 1..Len(ts) : ts[i].end_ms >= ts[i].start_ms
    /\ \A i \in 2..Len(ts) : ts[i].start_ms >= ts[i - 1].end_ms

\* C1: the timing list returned by _build_precise_timings is non-overlapping
\* and non-decreasing, with alignment merged in or with the heuristic alone.
\* (Violated: without a timed alignment entry the heuristic list is returned
\* with no repair pass, and the float cursor can round a chunk's last end_ms
\* one millisecond above the next chunk's first start_ms.)
C1_TimingsMonotonic == tpc = "timed" => Monotonic(timings)

\* C8: when the alignment is unavailable (None, or a list with no timed
\* entry) the returned timings are the heuristic timer's output, entry for entry.
C8_UnavailableIsHeuristic ==
    (tpc = "timed" /\ ~HasTimedEntry(alignment))
        => /\ timings = estimate
           /\ \E drift \in FloatDrifts :
                 timings = BuildWordTimingsEstimate(chunk_records, all_tokens, drift)

\* The backend reported words, none of them gave any token a time, and the
\* chapter has tokens in two chunks.
C8_Witness ==
    /\ tpc = "timed"
    /\ words # <<>>
    /\ alignment # Unavailable
    /\ ~HasTimedEntry(alignment)
    /\ Len(chunk_records) = 2
    /\ Len(timings) >= 2
    /\ timings[Len(timings)].end_ms > 0

\* Start and end of timing i after the merge loop: the alignment entry's
\* times in whole milliseconds where it has one, the heuristic's otherwise.
MergedSpan(i) ==
    IF alignment[i] = None
    THEN [start_ms |-> estimate[i].start_ms, end_ms |-> estimate[i].end_ms]
    ELSE [start_ms |-> IntMs(alignment[i].start),
          end_ms |-> Max(IntMs(alignment[i].start), IntMs(alignment[i].end))]

\* C26: with a timed alignment entry, timing i starts from the alignment's
\* start/end where entry i is timed and from the heuristic's otherwise; the
\* repair pass moves start_ms to the previous timing's end_ms when that is
\* later and end_ms to start_ms when that is later, never earlier, keeps
\* token, char_start and char_end, and applied again changes nothing.
C26_MergeThenRepair ==
    (tpc = "timed" /\ HasTimedEntry(alignment))
        => /\ Len(timings) = Len(estimate)
           /\ \A i \in 1..Len(timings) :
                 LET previous_end == IF i = 1 THEN 0 ELSE timings[i - 1].end_ms
                 IN  /\ timings[i].token = estimate[i].token
                     /\ timings[i].char_start = estimate[i].char_start
                     /\ timings[i].char_end = estimate[i].char_end
                     /\ timings[i].start_ms >= MergedSpan(i).start_ms
                     /\ timings[i].end_ms >= MergedSpan(i).end_ms
                     /\ timings[i].start_ms = Max(MergedSpan(i).start_ms, previous_end)
                     /\ timings[i].end_ms = Max(MergedSpan(i).end_ms, timings[i].start_ms)
           /\ RepairPass(timings, 1, 0) = timings

\* One token took the alignment's times, another kept the heuristic's, and
\* the repair pass moved a start later than the merge loop had left it.
C26_Witness ==
    /\ tpc = "timed" /\ HasTimedEntry(alignment)
    /\ \E i, j \in 1..Len(timings) :
          /\ alignment[i] # None /\ timings[i].start_ms = IntMs(alignment[i].start)
          /\ alignment[j] = None
    /\ \E i \in 1..Len(timings) : timings[i].start_ms > MergedSpan(i).start_ms

(***************************************************************************)
(* Properties of the orchestrator (Spec).                                  *)
(***************************************************************************)
\* run() returned after _write_manifest wrote the file.
ManifestWritten == pc = "done" /\ "manifest_written" \in outcome.log

\* The chapter indices selected by the validated range.
Selected == chapter_start..chapter_end

RowsOf(index) == {k \in 1..Len(manifest.chapters) : manifest.chapters[k].index = index}

ResultsOf(index) == {k \in 1..Len(results) : results[k][1] = index}

\* C2: chapter isolation: when the manifest is written, every selected
\* chapter was processed (it has a result) whichever chapters raised, and the
\* manifest has one entry per selected chapter, "failed" exactly for the
\* chapters whose processing raised and "ready" for all the others.
C2_ChapterIsolation ==
    ManifestWritten
        => /\ Len(manifest.chapters) = Cardinality(Selected)
           /\ \A i \in Selected :
                 /\ Cardinality(ResultsOf(i)) = 1
                 /\ Cardinality(RowsOf(i)) = 1
                 /\ \A k \in RowsOf(i) :
                       manifest.chapters[k].status =
                           (IF i \in raised THEN "failed" ELSE "ready")

\* A written manifest over at least two chapters, some raised and some not.
C2_Witness ==
    /\ ManifestWritten
    /\ raised # {} /\ raised # Selected
    /\ \E k \in 1..Len(manifest.chapters) : manifest.chapters[k].status = "failed"
    /\ \E k \in 1..Len(manifest.chapters) : manifest.chapters[k].status = "ready"

\* A complete manifest written by the run itself.
ManifestOfRun == manifest.state = "complete" /\ manifest # EarlierManifest

\* The pool was created and the chapter jobs were submitted.
Dispatched == workers # <<>>

\* C3: a run ends either with a complete manifest listing every attempted
\* chapter, or with a validation error before any chapter job was dispatched:
\* a run that has dispatched its jobs does not end without a complete manifest.
\* (Violated: an interrupt or an exception after the jobs were submitted ends
\* the run in the except clauses of run(), which write no manifest.)
C3_NoEndAfterDispatchWithoutManifest ==
    (pc = "done" /\ Dispatched)
        => ManifestOfRun /\ Len(manifest.chapters) = Cardinality(Selected)

\* C4: with chapter_start out of range the run aborts in the range checks:
\* it never gets past them, no pool is created, no job is submitted or run,
\* the manifest file is left as it was, and the ValueError names chapter_start.
C4_StartOutOfRange ==
    (chapter_start < 1 \/ chapter_start > Len(FilterChapters(chapters)))
        => /\ pc \in {"start", "validating", "done"}
           /\ ~Dispatched /\ taskq = <<>> /\ results = <<>>
           /\ manifest \in {AbsentManifest, EarlierManifest}
           /\ (pc = "done" /\ outcome.at = "validating" /\ outcome.exc # "KeyboardInterrupt")
                 => /\ outcome.exc = "ValueError"
                    /\ "chapter_start" \in outcome.log

\* chapter_start = 5 with 3 non-empty chapters: the run ended on the range check.
C4_Witness ==
    /\ pc = "done" /\ outcome.exc = "ValueError" /\ "chapter_start" \in outcome.log
    /\ chapter_start = 5 /\ Len(chapters) = 3

\* C5: whatever the number of workers and the completion order, the written
\* manifest has exactly one row per selected chapter, in increasing index
\* order chapter_start..chapter_end, and a row is "ready" iff the chapter's
\* result was success = True.
C5_ManifestInIndexOrder ==
    ManifestWritten
        => /\ Len(manifest.chapters) = chapter_end - chapter_start + 1
           /\ \A k \in 1..Len(manifest.chapters) :
                 /\ manifest.chapters[k].index = chapter_start + k - 1
                 /\ manifest.chapters[k].status = "ready"
                       <=> \E r \in 1..Len(results) :
                              results[r] = <<chapter_start + k - 1, TRUE>>

\* Two workers finished the chapters out of index order, with both statuses.
C5_Witness ==
    /\ ManifestWritten /\ worker_count = 2
    /\ \E a, b \in 1..Len(results) : a < b /\ results[a][1] > results[b][1]
    /\ \E a, b \in 1..Len(results) : results[a][2] /\ ~results[b][2]

\* C6: after an interrupt that arrived while a chapter job was running, the
\* jobs in flight have run to completion (each has a result) and a partial
\* manifest exists that holds only chapters that were completed or attempted.
\* (Violated: the pool is terminated with the jobs in flight, and the
\* KeyboardInterrupt clause of run() only logs; no manifest is written.)
C6_InterruptLeavesPartialManifest ==
    (/\ pc = "done" /\ outcome.exc = "KeyboardInterrupt" /\ outcome.at = "running"
     /\ \E w \in 1..Len(workers) : workers[w].job # 0)
        => /\ \A w \in 1..Len(workers) :
                 workers[w].job # 0 => ResultsOf(workers[w].job) # {}
           /\ ManifestOfRun
           /\ \A k \in 1..Len(manifest.chapters) :
                 ResultsOf(manifest.chapters[k].index) # {}

\* C7: run() does not propagate a crash: after an interrupt, an exception
\* while the jobs run or a failure while writing the manifest the call has
\* returned normally and the event was logged; a manifest write failure is
\* not re-raised; only the exit(0) of a declined prompt leaves run() otherwise.
C7_RunReturns ==
    pc = "done"
        => /\ outcome.exc # "SystemExit" => outcome.ended = "returned"
           /\ outcome.exc = "KeyboardInterrupt" => "interrupted" \in outcome.log
           /\ IsException(outcome.exc) => "error" \in outcome.log
           /\ "manifest_failed" \in outcome.log => outcome.exc = "none"

\* The dump of the manifest failed after the file was opened.
C7_Witness ==
    /\ pc = "done" /\ "manifest_failed" \in outcome.log
    /\ manifest = PartialManifest /\ outcome.ended = "returned"

\* How many times chapter index i is waiting in the queue, in flight at a
\* worker, or reported in the results.
Occurrences(i) ==
    Cardinality({k \in 1..Len(taskq) : taskq[k] = i})
    + Cardinality({w \in 1..Len(workers) : workers[w].job = i})
    + Cardinality(ResultsOf(i))

\* C17: once the jobs are submitted there is exactly one job per selected
\* chapter index and none for any other index; a job is in the queue, at one
\* worker or in the results, never in two places and never twice; when the
\* result loop has ended the results hold every selected index exactly once.
C17_JobsConsumedOnce ==
    Dispatched
        => /\ \A i \in Selected : Occurrences(i) = 1
           /\ \A k \in 1..Len(taskq) : taskq[k] \in Selected
           /\ \A w \in 1..Len(workers) : workers[w].job \in Selected \cup {0}
           /\ \A k \in 1..Len(results) : results[k][1] \in Selected
           /\ (pc = "writing" \/ ManifestWritten)
                 => /\ Len(results) = Cardinality(Selected)
                    /\ \A i \in Selected : Cardinality(ResultsOf(i)) = 1

\* Three chapters, two workers, results arriving out of index order.
C17_Witness ==
    /\ ManifestWritten /\ worker_count = 2 /\ Cardinality(Selected) = 3
    /\ Len(results) = 3
    /\ \E a, b \in 1..Len(results) : a < b /\ results[a][1] > results[b][1]

\* C24: a run that wrote the manifest leaves a complete file whose rows are
\* the chapters chapter_start..chapter_end of this run, each once and with
\* this run's title, and no row of the manifest the run found in the folder.
C24_ManifestRebuilt ==
    ManifestWritten
        => /\ manifest.state = "complete"
           /\ Len(manifest.chapters) = Cardinality(Selected)
           /\ {manifest.chapters[k].index : k \in 1..Len(manifest.chapters)} = Selected
           /\ \A k \in 1..Len(manifest.chapters) :
                 /\ manifest.chapters[k].title = chapters[manifest.chapters[k].index].title
                 /\ \A j \in 1..Len(found.chapters) :
                       manifest.chapters[k] # found.chapters[j]

\* The folder held a manifest with chapter 1 of another book; the run was
\* over the chapters from 2 on and wrote its manifest.
C24_Witness ==
    /\ ManifestWritten /\ found = EarlierManifest /\ chapter_start = 2
    /\ Len(manifest.chapters) >= 1

\* The processes of the pool that have run init_worker and are alive.
LiveWorkers == {w \in 1..Len(workers) : workers[w].st \in {"ready", "busy"}}

\* The engines the process in slot w has built, each named by the process
\* and its rank among the engines of that process.
EnginesOf(w) == {<<workers[w].identity, k>> : k \in 1..workers[w].tts_model}

\* C18: a worker process builds at most one TTS engine, whatever the number
\* of chapter jobs and chunks it processes, and no engine belongs to two
\* workers.
C18_OneEnginePerWorker ==
    /\ \A w \in 1..Len(workers) : workers[w].tts_model <= 1
    /\ \A v, w \in LiveWorkers : v # w => EnginesOf(v) \cap EnginesOf(w) = {}

\* One worker has returned True for two chapters, of MaxChunkCalls chunks
\* each, and holds its first engine.
C18_Witness ==
    /\ pc = "running" /\ Len(workers) = 1 /\ workers[1].tts_model = 1
    /\ Cardinality({k \in 1..Len(results) : results[k][2]}) >= 2

\* The device of the pool's w-th worker under round-robin assignment.
RoundRobinDevice(w) == kokoro_devices[((w - 1) % Len(kokoro_devices)) + 1]

\* C19: with a device pool configured, the worker with pool index w (slot
\* w + 1 of the pool) runs on devices[w % device_count] from the moment
\* init_worker has returned, through every job it processes.
C19_PinnedByPoolIndex ==
    kokoro_devices # <<>>
        => \A w \in LiveWorkers : workers[w].device = RoundRobinDevice(w)

\* A chapter whose text has a character that is not whitespace.
HasContent(c) == \E i \in 1..Len(c.text) : c.text[i] \notin Whitespace

\* The range predicate over the n chapters that remain.
RangeValid(start, end, n) ==
    /\ 1 <= start /\ start <= n
    /\ (end = -1 \/ (start <= end /\ end <= n))

\* C20: the step that reads the chapters keeps exactly the chapters with
\* content, in book order; the validation step that follows goes on to the
\* prompt iff 1 <= chapter_start <= N and (chapter_end = -1 or chapter_start
\* <= chapter_end <= N), for the N chapters kept, with chapter_end = -1
\* replaced by N and the range otherwise as given; for every other pair the
\* run ends there on a ValueError, before any pool or job exists.
C20_RangePredicate ==
    [][ /\ (pc = "start" /\ pc' = "validating")
              => chapters' = SelectSeq(chapters, HasContent)
        /\ (pc = "validating" /\ pc' # pc /\ outcome'.exc # "KeyboardInterrupt")
              => IF RangeValid(chapter_start, chapter_end, Len(chapters))
                 THEN /\ pc' = "prompting"
                      /\ chapter_start' = chapter_start
                      /\ chapter_end' = IF chapter_end = -1 THEN Len(chapters)
                                                           ELSE chapter_end
                 ELSE /\ pc' = "done" /\ outcome'.exc = "ValueError"
                      /\ outcome'.at = "validating"
                      /\ workers' = <<>> /\ taskq' = <<>> /\ results' = <<>>
      ]_vars

\* The range 2..2 passed validation against two chapters kept out of a book
\* whose first chapter was dropped.
C20_Witness ==
    /\ pc = "prompting" /\ chapter_start = 2 /\ chapter_end = 2
    /\ Len(chapters) = 2 /\ chapters[1].title # 1

(***************************************************************************)
(* Specification SpecBackends: one chapter job from the alignment call on. *)
(* align_tokens_with_audio tries its backends in turn, each of which may   *)
(* be missing or fail at any of its steps; then _build_precise_timings     *)
(* merges what came back and process_chapter returns.                      *)
(***************************************************************************)
MaxBackendWords == 1

\* Values of the backend argument ("": None or empty).
BackendArgs == {"", "auto", "whisperx", "Whisper_X", "faster_whisper", "whisper", "wav2vec"}

\* preferred.replace("_", "-").lower(), on the names above
NormalizeBackend(preferred) ==
    CASE preferred = "Whisper_X" -> "whisper-x"
      [] preferred = "faster_whisper" -> "faster-whisper"
      [] OTHER -> preferred

\* A sequence that puts Faster-Whisper first when both backends are tried.
ResolveBackendSequenceFasterFirst(preferred) ==
    IF NormalizeBackend(preferred) \in {"whisperx", "whisper-x"} THEN <<"whisperx">>
    ELSE <<"faster-whisper", "whisperx">>

\* _resolve_backend_sequence
ResolveBackendSequence(preferred) ==
    IF preferred = "" \/ preferred = "auto" THEN <<"whisperx", "faster-whisper">>
    ELSE LET normalized == NormalizeBackend(preferred)
         IN  IF normalized \in {"whisperx", "whisper-x"} THEN <<"whisperx">>
             ELSE IF normalized \in {"faster-whisper", "fasterwhisper", "whisper", "faster"}
                  THEN <<"faster-whisper">>
                  ELSE <<"whisperx", "faster-whisper">>

\* The steps of a backend function that can fail, each with the exception
\* class its except clause names ("test": a test that raises nothing).
BackendSteps(name) ==
    IF name = "whisperx"
    THEN << [step |-> "import", clause |-> "ImportError"],
            [step |-> "load_model", clause |-> "Exception"],
            [step |-> "transcribe", clause |-> "Exception"],
            [step |-> "load_align_model", clause |-> "Exception"],
            [step |-> "align", clause |-> "Exception"] >>
    ELSE << [step |-> "import", clause |-> "test"],
            [step |-> "load_model", clause |-> "Exception"],
            [step |-> "transcribe", clause |-> "Exception"] >>

\* What a failing step raises: a missing package an ImportError, a model or
\* a call that fails a RuntimeError.
RaisedBy(step) == IF step = "import" THEN "ImportError" ELSE "RuntimeError"

\* An except clause that names ImportError wherever the code names Exception.
CatchesImportOnly(clause, exc) == clause = "test" \/ exc = "ImportError"

\* Does `except <clause>` catch an exception of class exc?
Catches(clause, exc) ==
    \/ clause = "test"
    \/ clause = "Exception"
    \/ clause = exc

\* What happens in a backend function: "words" (all steps went through and
\* words came back), "no_words", or the step that failed.
BackendOutcomes(name) ==
    {"words", "no_words"} \cup {BackendSteps(name)[k].step : k \in 1..Len(BackendSteps(name))}

\* The words a backend reports: one of the chapter, and a punctuation mark,
\* which normalizes to nothing.
BackendWords == WordsOver({ <<"h", "i">>, <<".">> }, { <<0, 60>> })

\* _align_with_whisperx / _align_with_faster_whisper, given what happens in
\* it: the value returned, or raised = TRUE when an exception leaves it.
AlignWith(name, tokens, what, ws) ==
    IF what = "words" THEN [raised |-> FALSE, value |-> MapWordsToTokens(tokens, ws)]
    ELSE IF what = "no_words" THEN [raised |-> FALSE, value |-> Unavailable]
    ELSE LET s == CHOOSE s \in {BackendSteps(name)[k] : k \in 1..Len(BackendSteps(name))} :
                      s.step = what
         IN  [raised |-> ~Catches(s.clause, RaisedBy(what)), value |-> Unavailable]

\* Chunk texts of the chapter: words and punctuation, punctuation only.
BackendChunks == { <<"H", "i", " ", "a", ".">>, <<"_", ",">>, <<".">> }

InitBackends ==
    /\ IdleRun /\ IdleServer
    /\ tpc = "call"
    /\ backend \in BackendArgs
    /\ backend_queue = <<>> /\ invoked = <<>> /\ chapter_result = "none"
    /\ \E chunk \in BackendChunks :
          /\ chunks = << chunk >>
          /\ chunk_records = << [text |-> chunk, duration |-> Rat(1, 2),
                                 leading_silence |-> Zero, trailing_silence |-> Zero,
                                 char_offset |-> 0] >>
          /\ all_tokens \in {Tokenize(chunk, 0), <<>>}
    /\ words = <<>> /\ assigned = <<>> /\ alignment = Unavailable
    /\ estimate = <<>> /\ timings = <<>>

\* _build_precise_timings builds the heuristic timings and calls
\* align_tokens_with_audio, which returns None at once for no tokens.
CallAlign ==
    /\ tpc = "call"
    /\ \E drift \in FloatDrifts :
          estimate' = BuildWordTimingsEstimate(chunk_records, all_tokens, drift)
    /\ IF all_tokens = <<>>
       THEN tpc' = "returned" /\ UNCHANGED backend_queue
       ELSE tpc' = "trying" /\ backend_queue' = ResolveBackendSequence(backend)
    /\ UNCHANGED <<chunks, chunk_records, all_tokens, words, assigned, alignment, timings,
                   backend, invoked, chapter_result>>
    /\ UNCHANGED <<runVars, serverVars>>

\* One iteration of the loop over backend_queue.
TryBackend ==
    /\ tpc = "trying"
    /\ LET backend_name == backend_queue[Len(invoked) + 1]
       IN  \E what \in BackendOutcomes(backend_name),
              ws \in SeqsUpTo(BackendWords, MaxBackendWords) :
              /\ what = "words" <=> ws # <<>>
              /\ LET r == AlignWith(backend_name, all_tokens, what, ws)
                 IN  /\ invoked' = Append(invoked, [name |-> backend_name, what |-> what,
                                                      raised |-> r.raised, value |-> r.value])
                     /\ words' = ws
                     /\ alignment' = r.value
                     /\ tpc' = IF r.raised THEN "raised"
                               ELSE IF HasTimedEntry(r.value) THEN "returned"
                               ELSE IF Len(invoked) + 1 = Len(backend_queue) THEN "returned"
                               ELSE "trying"
    /\ UNCHANGED <<chunks, chunk_records, all_tokens, assigned, estimate, timings,
                   backend, backend_queue, chapter_result>>
    /\ UNCHANGED <<runVars, serverVars>>

\* The rest of the job: the merge of _build_precise_timings and the return
\* of process_chapter, or its except clause when the call raised.
FinishChapter ==
    /\ tpc \in {"returned", "raised"}
    /\ timings' = IF tpc = "raised" THEN timings
                  ELSE BuildPreciseTimings(estimate, alignment)
    /\ chapter_result' = ProcessChapter(tpc = "raised")
    /\ tpc' = "done"
    /\ UNCHANGED <<chunks, chunk_records, all_tokens, words, assigned, alignment, estimate,
                   backend, backend_queue, invoked>>
    /\ UNCHANGED <<runVars, serverVars>>

NextBackends == CallAlign \/ TryBackend \/ FinishChapter

SpecBackends == InitBackends /\ [][NextBackends]_vars

(***************************************************************************)
(* Properties of the alignment call and its backends (SpecBackends).       *)
(***************************************************************************)
\* No backend called so far got words back.
NoBackendGaveWords == \A k \in 1..Len(invoked) : invoked[k].what # "words"

\* C22: when every backend tried is missing, fails to load, fails to
\* transcribe or align, or returns no words, no exception leaves a backend
\* function, align_tokens_with_audio returns None, the chapter's timings are
\* the heuristic ones and process_chapter returns True.
C22_UnavailableNeverFails ==
    NoBackendGaveWords
        => /\ tpc # "raised"
           /\ \A k \in 1..Len(invoked) :
                 ~invoked[k].raised /\ invoked[k].value = Unavailable
           /\ tpc \in {"returned", "done"} => alignment = Unavailable
           /\ tpc = "done" => timings = estimate /\ chapter_result = TRUE

\* WhisperX lost its alignment model, Faster-Whisper is not installed, and
\* the chapter ended with its heuristic timings.
C22_Witness ==
    /\ tpc = "done" /\ Len(invoked) = 2
    /\ invoked[1].what = "load_align_model" /\ invoked[2].what = "import"
    /\ timings # <<>> /\ timings = estimate /\ chapter_result = TRUE

\* The backend argument names one backend.
NamesWhisperX == backend \in {"whisperx", "Whisper_X"}

NamesFasterWhisper == backend \in {"faster_whisper", "whisper"}

\* C27: the backends are called in the order of the list, WhisperX before
\* Faster-Whisper unless the argument names one of them; a backend is called
\* only while no earlier one returned a timed token; a backend that is
\* unavailable returns None and raises nothing; the call returns the result
\* of the last backend it called, which has a timed token or is the last of
\* the list.
C27_BackendsInOrder ==
    /\ tpc \in {"trying", "returned", "done"} /\ all_tokens # <<>>
          => backend_queue = IF NamesWhisperX THEN <<"whisperx">>
                             ELSE IF NamesFasterWhisper THEN <<"faster-whisper">>
                             ELSE <<"whisperx", "faster-whisper">>
    /\ Len(invoked) <= Len(backend_queue)
    /\ \A k \in 1..Len(invoked) :
          /\ invoked[k].name = backend_queue[k]
          /\ ~invoked[k].raised
          /\ invoked[k].what # "words" => invoked[k].value = Unavailable
          /\ k < Len(invoked) => ~HasTimedEntry(invoked[k].value)
    /\ tpc = "trying" => Len(invoked) < Len(backend_queue)
    /\ (tpc \in {"returned", "done"} /\ all_tokens # <<>>)
          => /\ invoked # <<>>
             /\ alignment = invoked[Len(invoked)].value
             /\ HasTimedEntry(alignment) \/ Len(invoked) = Len(backend_queue)

\* An unknown backend name: WhisperX reported a mark that timed no token,
\* then Faster-Whisper timed one and its result was returned.
C27_Witness ==
    /\ backend = "wav2vec" /\ tpc = "returned" /\ Len(invoked) = 2
    /\ invoked[1].name = "whisperx" /\ invoked[1].value # Unavailable
    /\ invoked[2].name = "faster-whisper" /\ HasTimedEntry(alignment)

(***************************************************************************)
(* Specification SpecAudio: _synthesize_speech on one chunk. The engine    *)
(* writes some audio to the chunk's file and _analyze_audio measures it.   *)
(***************************************************************************)
MaxAudioFrames == 3

\* Sample values in units of 1e-6 of full scale: digital silence, the 1e-6
\* floor, noise under the 1e-4 threshold, the threshold itself, a sample
\* under 0.5% of the peak, and speech.
SampleValues == {0, 1, 50, 100, -900, 200000}

InitAudio ==
    /\ IdleRun /\ IdleBackends /\ IdleServer
    /\ tpc = "synth"
    /\ chunks = << <<"a">> >>
    /\ chunk_records = <<>>
    /\ all_tokens = <<>> /\ words = <<>> /\ assigned = <<>> /\ alignment = Unavailable
    /\ estimate = <<>> /\ timings = <<>>

\* _synthesize_speech: the record keeps the file's samples (audio_path) next
\* to what _analyze_audio returned for them.
SynthesizeSpeech ==
    /\ tpc = "synth"
    /\ \E samples \in SeqsUpTo(SampleValues, MaxAudioFrames) :
          LET audio_stats == AnalyzeAudio(samples, SampleRate)
          IN  chunk_records' = << [text |-> chunks[1], audio |-> samples,
                                  duration |-> audio_stats.duration,
                                  leading_silence |-> audio_stats.leading_silence,
                                  trailing_silence |-> audio_stats.trailing_silence,
                                  char_offset |-> 0] >>
    /\ tpc' = "analysed"
    /\ UNCHANGED <<chunks, all_tokens, words, assigned, alignment, estimate, timings>>
    /\ UNCHANGED <<runVars, backendVars, serverVars>>

NextAudio == SynthesizeSpeech

SpecAudio == InitAudio /\ [][NextAudio]_vars

(***************************************************************************)
(* Properties of the silence analysis (SpecAudio).                         *)
(***************************************************************************)
\* Positions (from 1) of the samples at or above max(1e-4, 0.5% of the peak).
AtOrAboveThreshold(samples) ==
    {i \in 1..Len(samples) :
        /\ Abs(samples[i]) >= 100
        /\ \A j \in 1..Len(samples) : Abs(samples[i]) * 1000 >= Abs(samples[j]) * 5}

\* C23: a chunk with every sample below the threshold, an all-zero buffer
\* included, has leading_silence = 0 and trailing_silence = duration; a chunk
\* with a sample at or above the threshold has leading_silence = the time of
\* the first such sample and trailing_silence = the time after the last one.
\* (Violated: a buffer whose peak is at most 1e-6, such as an all-zero one,
\* is reported with trailing_silence = 0.)
C23_SilenceAnalysis ==
    \A r \in 1..Len(chunk_records) :
        LET rec == chunk_records[r]
            loud == AtOrAboveThreshold(rec.audio)
            frames == Len(rec.audio)
        IN  /\ rec.duration = Rat(frames, SampleRate)
            /\ IF loud = {}
               THEN rec.leading_silence = Zero /\ rec.trailing_silence = rec.duration
               ELSE /\ \E i \in loud :
                         /\ \A j \in loud : i <= j
                         /\ rec.leading_silence = Rat(i - 1, SampleRate)
                    /\ \E i \in loud :
                         /\ \A j \in loud : i >= j
                         /\ rec.trailing_silence = Rat(frames - i, SampleRate)

(***************************************************************************)
(* The backend server (app/backend/main.py): create_audiobook on the event *)
(* loop, _run_generation as a background task in a worker thread, and      *)
(* delete_book in a worker thread (SpecServer).                            *)
(***************************************************************************)
\* Accepted requests in one execution of the server.
MaxJobs == 2

\* Path(file.filename).stem of the uploads.
UploadStems == { <<"H", "i">>, <<"h", "i">>, <<"_">> }

\* The voice form field: one of AVAILABLE_VOICES and one that is not.
Voices == {"af_heart", "nova"}

\* The chapter_start / chapter_end form fields.
ChapterRanges == { <<1, 1>>, <<2, -1>>, <<2, 1>>, <<0, 1>> }

\* Chapters with content in the uploaded book.
EpubChapterCounts == {1}

RECURSIVE SubDashes(_, _)
\* re.sub(r"[^A-Za-z0-9]+", "-", value): one dash for each run.
SubDashes(value, i) ==
    IF i > Len(value) THEN <<>>
    ELSE IF IsAsciiAlnum(value[i]) THEN << value[i] >> \o SubDashes(value, i + 1)
    ELSE IF i > 1 /\ ~IsAsciiAlnum(value[i - 1]) THEN SubDashes(value, i + 1)
    ELSE << "-" >> \o SubDashes(value, i + 1)

RECURSIVE LStripDashes(_)
LStripDashes(text) ==
    IF text # <<>> /\ Head(text) = "-" THEN LStripDashes(Tail(text)) ELSE text

\* _slugify
Slugify(value) ==
    LET sanitized == Reverse(LStripDashes(Reverse(LStripDashes(SubDashes(value, 1)))))
        lowered == [i \in 1..Len(sanitized) |-> Lower(sanitized[i])]
    IN  IF lowered = <<>> THEN <<"b", "o", "o", "k">> ELSE lowered

\* str(counter) for a counter below 10.
Decimal(counter) == << <<"0", "1", "2", "3", "4", "5", "6", "7", "8", "9">>[counter + 1] >>

RECURSIVE EnsureUniqueFrom(_, _, _)
\* The loop of _ensure_unique_book_id.
EnsureUniqueFrom(base_id, candidate, counter) ==
    IF candidate \notin output_dir THEN candidate
    ELSE EnsureUniqueFrom(base_id, base_id \o << "-" >> \o Decimal(counter + 1), counter + 1)

\* _ensure_unique_book_id
EnsureUniqueBookId(base_id) == EnsureUniqueFrom(base_id, base_id, 1)

\* The checks of create_audiobook that answer 400.
Accepted(voice, filename, start, end) ==
    /\ voice = "af_heart"
    /\ filename # <<>>
    /\ start >= 1
    /\ end = -1 \/ end >= start

\* How AudiobookGenerator.run() can end for a book of n chapters: the
\* manifest written, the ValueError of a range check swallowed, another
\* exception or an interrupt swallowed, or an exception raised outside its
\* try block.
RunEndings(start, end, n) ==
    IF RangeError(start, end, n) # "none" THEN {"invalid_range", "error", "raised"}
    ELSE {"manifest", "error", "raised"}

\* "failed" for every run without a manifest.
GenerationStatusByManifest(book_id, ending) ==
    IF ending = "manifest" THEN [status |-> "completed", book_id |-> book_id]
    ELSE [status |-> "failed", book_id |-> book_id, detail |-> ending]

\* The try / except around run() in _run_generation.
GenerationStatus(book_id, ending) ==
    IF ending = "raised" THEN [status |-> "failed", book_id |-> book_id, detail |-> ending]
    ELSE [status |-> "completed", book_id |-> book_id]

\* tasks_status[job_id] = payload
Put(table, job_id, payload) ==
    [k \in DOMAIN table \cup {job_id} |-> IF k = job_id THEN payload ELSE table[k]]

\* The pop loop of _delete_book_artifacts.
PopBook(table, book_id) ==
    [k \in {x \in DOMAIN table : table[x].book_id # book_id} |-> table[k]]

InitServer ==
    /\ IdleRun /\ IdleBackends /\ IdleServer
    /\ tpc = "idle"
    /\ chunks = <<>> /\ chunk_records = <<>>
    /\ all_tokens = <<>> /\ words = <<>> /\ assigned = <<>> /\ alignment = Unavailable
    /\ estimate = <<>> /\ timings = <<>>

\* POST /api/audiobooks: the coroutine runs on the event loop without
\* awaiting, so nothing of the server interleaves with it.
CreateAudiobook ==
    /\ Len(jobs) < MaxJobs
    /\ \E voice \in Voices, filename \in UploadStems, range \in ChapterRanges,
          n \in EpubChapterCounts :
          /\ Accepted(voice, filename, range[1], range[2])
          /\ LET book_id == EnsureUniqueBookId(Slugify(filename))
                 job_id == Len(jobs) + 1
             IN  /\ books_dir' = books_dir \cup {book_id}
                 /\ tasks_status' = Put(tasks_status, job_id,
                                        [status |-> "queued", book_id |-> book_id])
                 /\ jobs' = Append(jobs, [pc |-> "queued", book_id |-> book_id,
                                          chapter_start |-> range[1],
                                          chapter_end |-> range[2],
                                          chapters |-> n, ended |-> "none"])
    /\ UNCHANGED <<output_dir, deleted>>
    /\ UNCHANGED <<runVars, timingVars, backendVars>>

\* _run_generation up to the call of run(): the status and the output folder.
StartGeneration(job_id) ==
    /\ jobs[job_id].pc = "queued"
    /\ tasks_status' = Put(tasks_status, job_id,
                           [status |-> "processing", book_id |-> jobs[job_id].book_id])
    /\ output_dir' = output_dir \cup {jobs[job_id].book_id}
    /\ jobs' = [jobs EXCEPT ![job_id].pc = "running"]
    /\ UNCHANGED <<books_dir, deleted>>
    /\ UNCHANGED <<runVars, timingVars, backendVars>>

\* AudiobookGenerator(config).run() and the status written after it; run()
\* makes the output folder again once its parser and provider are built.
RunGeneration(job_id) ==
    /\ jobs[job_id].pc = "running"
    /\ \E ending \in RunEndings(jobs[job_id].chapter_start, jobs[job_id].chapter_end,
                                jobs[job_id].chapters) :
          /\ jobs' = [jobs EXCEPT ![job_id].pc = "finished", ![job_id].ended = ending]
          /\ output_dir' = IF ending \in {"manifest", "invalid_range"}
                           THEN output_dir \cup {jobs[job_id].book_id}
                           ELSE output_dir
          /\ tasks_status' = Put(tasks_status, job_id,
                                 GenerationStatus(jobs[job_id].book_id, ending))
    /\ UNCHANGED <<books_dir, deleted>>
    /\ UNCHANGED <<runVars, timingVars, backendVars>>

\* DELETE /api/books/{book_id} for a book whose folder exists (404 and no
\* change otherwise): _delete_book_artifacts, then the response.
DeleteBook ==
    /\ \E book_id \in output_dir :
          /\ output_dir' = output_dir \ {book_id}
          /\ books_dir' = books_dir \ {book_id}
          /\ tasks_status' = PopBook(tasks_status, book_id)
          /\ deleted' = deleted \cup {j \in 1..Len(jobs) : jobs[j].book_id = book_id}
    /\ UNCHANGED jobs
    /\ UNCHANGED <<runVars, timingVars, backendVars>>

NextServer ==
    \/ CreateAudiobook
    \/ \E job_id \in 1..Len(jobs) : StartGeneration(job_id)
    \/ \E job_id \in 1..Len(jobs) : RunGeneration(job_id)
    \/ DeleteBook

SpecServer == InitServer /\ [][NextServer]_vars

(***************************************************************************)
(* Properties of the backend server (SpecServer).                          *)
(***************************************************************************)
\* The position of a job before a step ("none": not submitted yet).
WasAt(j) == IF j <= Len(jobs) THEN jobs[j].pc ELSE "none"

\* C28: each step of a job writes its status: "queued" on submission,
\* "processing" when _run_generation starts, and when run() has ended
\* "failed" if it raised and "completed" otherwise, a run that was aborted
\* without a manifest included.
C28_StatusLifecycle ==
    [][\A j \in 1..Len(jobs') :
          jobs'[j].pc # WasAt(j)
             => /\ j \in DOMAIN tasks_status'
                /\ tasks_status'[j].book_id = jobs'[j].book_id
                /\ tasks_status'[j].status =
                      CASE jobs'[j].pc = "queued" -> "queued"
                        [] jobs'[j].pc = "running" -> "processing"
                        [] jobs'[j].pc = "finished" ->
                              IF jobs'[j].ended = "raised" THEN "failed" ELSE "completed"]_vars

\* A job asked for chapter 2 of a book of one chapter: run() ended on the
\* range check, no manifest was written, and the job's status is completed.
C28_Witness ==
    \E j \in 1..Len(jobs) :
       /\ jobs[j].pc = "finished" /\ jobs[j].ended = "invalid_range"
       /\ jobs[j].chapter_start > jobs[j].chapters
       /\ j \in DOMAIN tasks_status /\ tasks_status[j].status = "completed"

\* C29: once delete_book has returned for a book, tasks_status has no entry
\* of the jobs of that book.
\* (Violated: a job that is running when the book is deleted writes its
\* final status afterwards.)
C29_NoEntryAfterDelete == \A j \in deleted : j \notin DOMAIN tasks_status

\* C30: two accepted uploads never get the same book_id.
\* (Violated: the folder that _ensure_unique_book_id looks for is made by
\* the background task, after the request that chose the id has returned.)
C30_UniqueBookIds ==
    \A i, j \in 1..Len(jobs) : i # j => jobs[i].book_id # jobs[j].book_id

=============================================================================
